---- MODULE Spec2Model ----
(***************************************************************************)
(* Horizon state synchronization of the base node                          *)
(* (base_layer/core/.../horizon_state_sync/horizon_state_synchronization.rs)*)
(*                                                                         *)
(* One HorizonStateSynchronization session is one run of synchronize():    *)
(* prepare_for_sync, synchronize_kernels, synchronize_outputs,             *)
(* finalize_horizon_sync and, on a non-recoverable error, rollback.  The   *)
(* sync peer is adversarial: every stream item, and the point at which the *)
(* stream ends, is chosen nondeterministically.  The backing store may     *)
(* fail where the code propagates a ChainStorageError with `?`.            *)
(***************************************************************************)
EXTENDS Integers, Sequences, FiniteSets, TLC

\* ------------------------------------------------------------------ bounds
\* Horizon height of the session (headers 0..MaxHeight + 1 are in the header db).
MaxHeight == 3
\* Items the peer may stream beyond the requested range [start, end).
MaxExtra == 1
\* Longest list of candidate sync peers, and the node ids they carry.
MaxPeers == 3
MaxNodeId == 2
MaxBans == 1
MaxBanPeers == 2
MaxBodyLen == 2
MaxInputs == 1
MaxOutputs == 2
MaxKernels == 1
MaxItem == 3
MaxItems == 3
MaxTimestamp == 3
MaxTimestamps == 4
\* Largest number of UTXOs in one SyncUtxosResponse.
MaxMsgUtxos == 2

\* The header db holds the headers up to the horizon and one above it.
Heights == 0..(MaxHeight + 1)

\* Leaves a header adds to <<kernel MMR, output MMR>>.
Increments == {<<1, 1>>, <<2, 0>>, <<0, 2>>}

\* ------------------------------------------------------------------ hashes
\* A hash that is not the hash of any leaf of the chain.
BadHash == <<"bad">>
TrueKernelHash(pos) == <<"k", pos>>
\* The chain's kernel at pos with its excess signature altered: another
\* kernel, with another hash, whose signature does not verify.
TamperedKernelHash(pos) == <<"k", pos, "tampered_sig">>
\* TransactionKernel::verify_signature, on the kernel a hash stands for.
verify_signature(kernel) == Len(kernel) = 2 /\ kernel[1] = "k"
TrueOutputHash(pos) == <<"o", pos>>
TrueProofHash(pos) == <<"rp", pos>>

LeafSeq(F(_), n) == [i \in 1..n |-> F(i - 1)]

\* MerkleMountainRange::get_merkle_root over the leaves pushed so far.  The
\* pruned hash set retains what is needed to recompute the root and to keep
\* pushing; it is modelled by the leaf sequence it commits to.
MmrRoot(leaves) == [mmr |-> leaves]
\* MutableMmr::get_merkle_root: the MMR root hashed with the deleted bitmap.
MutableMmrRoot(leaves, deleted) == [root |-> MmrRoot(leaves), deleted |-> deleted]
\* include_legacy_deleted_hash: the root hashed with the empty bitmap.
include_legacy_deleted_hash(root) == [root |-> root, deleted |-> {}]

\* Bitmap::deserialize: the serialized bitmap is the ascending list of its
\* set positions.
BitmapDeserialize(bytes) == {bytes[i] : i \in 1..Len(bytes)}

\* ------------------------------------------------------------------ chain
\* Cumulative sizes from per-header increments; genesis holds one leaf of each.
RECURSIVE SumTo(_, _, _)
SumTo(incs, idx, h) ==
    IF h = 0 THEN 1
    ELSE (IF h \in DOMAIN incs THEN incs[h][idx] ELSE 1) + SumTo(incs, idx, h - 1)

\* Outputs spent as of height h on the true chain: block g >= 2 spends the
\* output at position g - 2, when an earlier block created it.
TrueDeleted(incs, h) == {p \in 0..(h - 2) : p < SumTo(incs, 2, p + 1)}

HeaderHash(h) == <<"hash", h>>

\* What a header of the chain may commit to besides the true roots: header 2
\* with a wrong kernel_mr, or the horizon header with an output_mr whose
\* deleted bitmap drops the positions its predecessor had spent.
Corruptions == {"none", "kernel_mr", "output_mr"}

MakeHeader(incs, corrupt, h) ==
    LET ks == SumTo(incs, 1, h)
        os == SumTo(incs, 2, h)
    IN  [height |-> h,
         hash |-> HeaderHash(h),
         prev_hash |-> IF h = 0 THEN <<"hash", -1>> ELSE HeaderHash(h - 1),
         kernel_mmr_size |-> ks,
         output_mmr_size |-> os,
         kernel_mr |-> IF corrupt = "kernel_mr" /\ h = 2
                       THEN include_legacy_deleted_hash(MmrRoot(<<BadHash>>))
                       ELSE include_legacy_deleted_hash(MmrRoot(LeafSeq(TrueKernelHash, ks))),
         output_mr |-> MutableMmrRoot(LeafSeq(TrueOutputHash, os),
                          IF corrupt = "output_mr" /\ h = MaxHeight
                          THEN TrueDeleted(incs, h) \ TrueDeleted(incs, h - 1)
                          ELSE TrueDeleted(incs, h)),
         range_proof_mr |-> include_legacy_deleted_hash(MmrRoot(LeafSeq(TrueProofHash, os))),
         total_accumulated_difficulty |-> 10 * (h + 1)]


\* ------------------------------------------------------------------ state
VARIABLES
    headers,        \* header db: height -> BlockHeader (synced before horizon sync)
    store,          \* durable store: kernels, utxos, accData, metadata
    scopeOpen,      \* the in-progress horizon-sync marker of the store
    snapshot,       \* what horizon_sync_rollback restores
    pc,             \* position of synchronize()
    result,         \* value synchronize() returned
    syncErr,        \* error of begin_sync / finalize_horizon_sync awaiting the match
    errOrigin,      \* phase in which syncErr arose
    current_header, \* height of current_header
    mmr_position,
    start,
    end,
    kernels,        \* Vec<TransactionKernel> buffered for current_header
    output_hashes,
    rp_hashes,
    txn,            \* operations queued on the write transaction
    msgUtxos,       \* UTXOs of the current SyncUtxosResponse still to process
    msgBitmaps,     \* deleted_bitmaps iterator of the current response
    phases,         \* phases entered by this session, in order
    rollbackCalls,  \* horizon_sync_rollback invocations of this session
    commitLog,      \* write transactions committed by this session
    checkLog,       \* root checks of the current phase
    insertLog,      \* leaves received in the current phase
    sessionStart,   \* the store when this session's synchronize() was called
    lastOk,         \* whether the previous synchronize() on this store returned Ok
    other,          \* a second session on the same store: where its synchronize() is
    sync_peers,     \* SyncPeers: the working list of candidate sync peers
    banRequests,    \* ban_peer_until requests the connectivity collaborator received
    helperCall,     \* the last call of a peer helper: arguments, input list, result
    block,          \* the block handed to the block validator
    valCall         \* the last call on the block validator: entry point, checks run, result

chainVars == <<headers>>
dbVars == <<store, scopeOpen, snapshot>>
otherVars == <<other>>
peerVars == <<sync_peers, banRequests, helperCall>>
validatorVars == <<block, valCall>>
ctlVars == <<pc, result, syncErr, errOrigin>>
loopVars == <<current_header, mmr_position, start, end, kernels, output_hashes,
              rp_hashes, txn, msgUtxos, msgBitmaps>>
histVars == <<phases, rollbackCalls, commitLog, checkLog, insertLog, sessionStart, lastOk>>
vars == <<headers, store, scopeOpen, snapshot, pc, result, syncErr, errOrigin,
          current_header, mmr_position, start, end, kernels, output_hashes,
          rp_hashes, txn, msgUtxos, msgBitmaps, phases, rollbackCalls, commitLog,
          checkLog, insertLog, sessionStart, lastOk, other, sync_peers, banRequests,
          helperCall, block, valCall>>

NoResult == [ok |-> FALSE, err |-> "none", origin |-> "none"]
OkResult == [ok |-> TRUE, err |-> "none", origin |-> "none"]
ErrResult(err, origin) == [ok |-> FALSE, err |-> err, origin |-> origin]

\* BlockAccumulatedData::default()
DefaultAccData == [kernels |-> <<>>, outputs |-> <<>>, range_proofs |-> <<>>, deleted |-> {}]

GenesisStore ==
    [kernels |-> <<[hash |-> TrueKernelHash(0), header |-> HeaderHash(0), pos |-> 0]>>,
     utxos |-> <<[hash |-> TrueOutputHash(0), rp |-> TrueProofHash(0),
                  header |-> HeaderHash(0), pos |-> 0, pruned |-> FALSE]>>,
     accData |-> [hh \in {HeaderHash(h) : h \in Heights} |->
                    IF hh = HeaderHash(0)
                    THEN [kernels |-> <<TrueKernelHash(0)>>,
                          outputs |-> <<TrueOutputHash(0)>>,
                          range_proofs |-> <<TrueProofHash(0)>>,
                          deleted |-> {}]
                    ELSE DefaultAccData],
     metadata |-> [BestBlock |-> HeaderHash(0), ChainHeight |-> 0,
                   AccumulatedWork |-> 10, EffectivePrunedHeight |-> 0]]

\* A SyncPeer: its node id and what it reported of its chain.
NoPeer == [node_id |-> 0, chain |-> "none"]
SyncPeer == [node_id : 1..MaxNodeId, chain : {"tip_a", "tip_b"}]
RECURSIVE PeerListsOfLen(_)
PeerListsOfLen(n) ==
    IF n = 0 THEN {<<>>}
    ELSE {Append(l, p) : l \in PeerListsOfLen(n - 1), p \in SyncPeer}
PeerLists == UNION {PeerListsOfLen(n) : n \in 0..MaxPeers}
NoCall == [op |-> "none", random |-> FALSE, peer |-> NoPeer, input |-> <<>>,
           ok |-> FALSE, err |-> "none", selected |-> NoPeer,
           ban_duration |-> 0, reason |-> "none"]

\* No block has been handed to the validator.
NoBlock == [header |-> [height |-> 0], body |-> [inputs |-> <<>>, outputs |-> <<>>, kernels |-> <<>>]]
NoValCall == [entry |-> "none", ok |-> FALSE, err |-> "none", detail |-> <<>>, trace |-> <<>>,
              signatures |-> <<>>]

\* The session, the store and the second session before synchronize() runs.
InitSession ==
    /\ store = GenesisStore
    /\ scopeOpen = FALSE
    /\ snapshot = GenesisStore
    /\ pc = "idle"
    /\ result = NoResult
    /\ syncErr = "none"
    /\ errOrigin = "none"
    /\ current_header = 0
    /\ mmr_position = 0
    /\ start = 0
    /\ end = 0
    /\ kernels = <<>>
    /\ output_hashes = <<>>
    /\ rp_hashes = <<>>
    /\ txn = <<>>
    /\ msgUtxos = 0
    /\ msgBitmaps = 0
    /\ phases = <<>>
    /\ rollbackCalls = 0
    /\ commitLog = <<>>
    /\ checkLog = <<>>
    /\ insertLog = <<>>
    /\ sessionStart = GenesisStore
    /\ lastOk = FALSE
    /\ other = "idle"

Init ==
    /\ \E incs \in [1..MaxHeight -> Increments], corrupt \in Corruptions :
          headers = [h \in Heights |-> MakeHeader(incs, corrupt, h)]
    /\ InitSession
    /\ sync_peers = <<>>
    /\ banRequests = <<>>
    /\ helperCall = NoCall
    /\ block = NoBlock
    /\ valCall = NoValCall


\* ------------------------------------------------------------------ store
\* One queued operation of a write transaction applied to the store.
ApplyOp(st, op) ==
    CASE op.op = "insert_kernel" ->
           [st EXCEPT !.kernels = Append(@, [hash |-> op.hash, header |-> op.header, pos |-> op.pos])]
      [] op.op = "insert_output" ->
           [st EXCEPT !.utxos = Append(@, [hash |-> op.hash, rp |-> op.rp, header |-> op.header,
                                            pos |-> op.pos, pruned |-> op.pruned])]
      [] op.op = "update_pruned_hash_set" ->
           [st EXCEPT !.accData[op.header] =
               CASE op.tree = "Kernel" -> [@ EXCEPT !.kernels = op.set]
                 [] op.tree = "Utxo" -> [@ EXCEPT !.outputs = op.set]
                 [] op.tree = "RangeProof" -> [@ EXCEPT !.range_proofs = op.set]]
      [] op.op = "update_deleted" ->
           [st EXCEPT !.accData[op.header].deleted = op.deleted]
      [] op.op = "set_metadata" ->
           [st EXCEPT !.metadata[op.key] = op.value]

\* commit(): every queued operation is applied, in order, as one unit.
ApplyTxn_FirstOpOnly(st, ops) == IF ops = <<>> THEN st ELSE ApplyOp(st, Head(ops))
RECURSIVE ApplyTxn(_, _)
ApplyTxn(st, ops) ==
    IF ops = <<>> THEN st ELSE ApplyTxn(ApplyOp(st, Head(ops)), Tail(ops))

\* fetch_mmr_size(tree): leaves of the tree in the store.
fetch_mmr_size(st, tree) == IF tree = "Kernel" THEN Len(st.kernels) ELSE Len(st.utxos)

\* fetch_header_containing_kernel_mmr(pos): the first header whose recorded
\* kernel MMR size reaches pos.
fetch_header_containing_kernel_mmr(pos) ==
    CHOOSE h \in Heights :
        /\ headers[h].kernel_mmr_size >= pos
        /\ \A g \in Heights : headers[g].kernel_mmr_size >= pos => g >= h

fetch_header_containing_utxo_mmr(pos) ==
    CHOOSE h \in Heights :
        /\ headers[h].output_mmr_size >= pos
        /\ \A g \in Heights : headers[g].output_mmr_size >= pos => g >= h

\* fetch_block_accumulated_data(hash)
fetch_block_accumulated_data(st, hash) == st.accData[hash]

\* ------------------------------------------------------------------ errors
Errors == {"ChainStorageError", "RpcError", "ConversionError", "IncorrectResponse",
           "InvalidMmrRoot_Kernel", "InvalidMmrRoot_Utxo", "InvalidMmrRoot_RangeProof"}

\* HorizonSyncError::is_recoverable: the peer-fault errors.
is_recoverable(err) ==
    err \in {"EmptyResponse", "IncorrectResponse", "InvalidKernelSignature", "ConversionError"}

\* synchronize(): `Err(err) if err.is_recoverable() => Err(err)` returns at
\* once, any other error goes through self.rollback().
NeedsRollback_NeverRollsBack(err) == FALSE
NeedsRollback(err) == ~is_recoverable(err)

\* An error leaves begin_sync or finalize_horizon_sync and reaches the match
\* in synchronize().  The write transaction of the phase is dropped.
Fail(err, origin) ==
    /\ syncErr' = err
    /\ errOrigin' = origin
    /\ IF NeedsRollback(err)
       THEN /\ pc' = "rollback"
            /\ result' = result
       ELSE /\ pc' = "done"
            /\ result' = ErrResult(err, origin)

\* ------------------------------------------------------------------ kernel sync decisions
\* `if mmr_position == current_header.header.kernel_mmr_size - 1`
AtKernelBoundary(pos, h) == pos = headers[h].kernel_mmr_size - 1

\* `if mmr_position == current_header.header.output_mmr_size - 1`
AtOutputBoundary(pos, h) == pos = headers[h].output_mmr_size - 1

\* Kernel MMR seeded from the previous header's pruned hash set, the buffered
\* kernels pushed: `mmr_root != current_header.header.kernel_mr`.
KernelRootMatches_Unchecked(seed, buffered, h) == TRUE
KernelRootMatches(seed, buffered, h) ==
    include_legacy_deleted_hash(MmrRoot(seed \o buffered)) = headers[h].kernel_mr

\* `if mmr_position < end - 1 { current_header = fetch_chain_header(height + 1) }`
NextHeader_NeverAdvance(h, pos, e) == h
NextHeader_AlwaysAdvance(h, pos, e) == IF h + 1 \in Heights THEN h + 1 ELSE h
NextHeader(h, pos, e) == IF pos < e - 1 THEN h + 1 ELSE h

\* `mmr_position += 1`
NextPosition_SkipsOne(pos) == pos + 2
NextPosition(pos) == pos + 1

\* begin_sync: synchronize_kernels().await? and then synchronize_outputs().await?;
\* synchronize(): Ok(_) of begin_sync goes on to finalize_horizon_sync.
AfterKernels_SkipOutputs == "finalize"
AfterKernels == "outputs"
AfterOutputs == "finalize"

\* `if local_num_kernels >= remote_num_kernels { return Ok(()) }` and the same
\* test of synchronize_outputs.
AlreadySynchronized(local, remote) == local >= remote

\* `self.prepare_for_sync().await?`: an error of prepare_for_sync leaves
\* synchronize() at once, before the match that may roll back.
AfterPrepareFailure_RollsBack == "rollback"
AfterPrepareFailure_Proceeds == "kernels"
AfterPrepareFailure == "done"

\* horizon_sync_begin: the scope is exclusive, it cannot be opened twice.
horizon_sync_begin_allowed == ~scopeOpen
\* horizon_sync_rollback: the store goes back to what it held when the scope
\* was opened.
horizon_sync_rollback_store == snapshot


\* ------------------------------------------------------------------ output sync decisions
\* The two root comparisons of sync_output_nodes, output root first.
OutputRootsVerdict_RangeProofFirst(outLeaves, rpLeaves, deleted, h) ==
    IF include_legacy_deleted_hash(MmrRoot(rpLeaves)) /= headers[h].range_proof_mr
    THEN "InvalidMmrRoot_RangeProof"
    ELSE IF MutableMmrRoot(outLeaves, deleted) /= headers[h].output_mr
         THEN "InvalidMmrRoot_Utxo"
         ELSE "ok"
OutputRootsVerdict(outLeaves, rpLeaves, deleted, h) ==
    IF MutableMmrRoot(outLeaves, deleted) /= headers[h].output_mr
    THEN "InvalidMmrRoot_Utxo"
    ELSE IF include_legacy_deleted_hash(MmrRoot(rpLeaves)) /= headers[h].range_proof_mr
         THEN "InvalidMmrRoot_RangeProof"
         ELSE "ok"

\* What the peer may put at a kernel MMR position: the chain's kernel, or that
\* kernel with a tampered excess signature.
KernelChoices(pos) == {TrueKernelHash(pos), TamperedKernelHash(pos)}

\* `deleted.or(&bitmap)` on the previous header's deleted bitmap.
DeletedAfterDiff_DiffOnly(prev, diff) == diff
DeletedAfterDiff(prev, diff) == prev \cup diff

\* What the peer may put at an MMR position: the chain's output, as a pruned
\* stub when it is spent by the horizon and as a full output otherwise, or a
\* stub with a wrong output hash or a wrong range-proof hash.
UtxoChoices(pos) ==
    {[full |-> pos \notin headers[MaxHeight].output_mr.deleted,
      hash |-> TrueOutputHash(pos), rp |-> TrueProofHash(pos)],
     [full |-> FALSE, hash |-> BadHash, rp |-> TrueProofHash(pos)],
     [full |-> FALSE, hash |-> TrueOutputHash(pos), rp |-> BadHash]}

\* `deleted_bitmaps.next()` on the iterator of the current response, of which
\* `remaining` diffs are unconsumed: `deleted_diff.is_none()`.
deleted_diff_is_none_Never(remaining) == FALSE
deleted_diff_is_none(remaining) == remaining = 0

\* Serialized deleted-bitmap diffs the peer may send.
BitmapChoices == {<<>>} \cup {<<p>> : p \in 0..(MaxHeight - 2)}

\* The four set_metadata calls of finalize_horizon_sync for chain header h.
FinalizeOps_NoPrunedHeight(h) ==
    <<[op |-> "set_metadata", key |-> "BestBlock", value |-> headers[h].hash],
      [op |-> "set_metadata", key |-> "ChainHeight", value |-> headers[h].height],
      [op |-> "set_metadata", key |-> "AccumulatedWork",
       value |-> headers[h].total_accumulated_difficulty]>>
FinalizeOps(h) ==
    <<[op |-> "set_metadata", key |-> "BestBlock", value |-> headers[h].hash],
      [op |-> "set_metadata", key |-> "ChainHeight", value |-> headers[h].height],
      [op |-> "set_metadata", key |-> "AccumulatedWork",
       value |-> headers[h].total_accumulated_difficulty],
      [op |-> "set_metadata", key |-> "EffectivePrunedHeight", value |-> headers[h].height]>>

horizon_sync_height == MaxHeight

ResetLoop ==
    /\ kernels' = <<>>
    /\ output_hashes' = <<>>
    /\ rp_hashes' = <<>>
    /\ txn' = <<>>
    /\ msgUtxos' = 0
    /\ msgBitmaps' = 0

\* ------------------------------------------------------------------ synchronize()
\* prepare_for_sync: horizon_sync_begin opens the scope, or fails; the scope
\* is exclusive, so it fails while a scope is open.
PrepareForSync ==
    /\ pc = "idle"
    /\ phases' = Append(phases, "Preparing")
    /\ \/ /\ horizon_sync_begin_allowed
          /\ scopeOpen' = TRUE
          /\ snapshot' = store
          /\ pc' = "kernels"
          /\ UNCHANGED <<result, store>>
       \/ /\ pc' = AfterPrepareFailure
          /\ result' = ErrResult("ChainStorageError", "prepare")
          /\ UNCHANGED dbVars
    /\ UNCHANGED <<chainVars, otherVars, peerVars, validatorVars, syncErr, errOrigin, loopVars, rollbackCalls, commitLog,
                   checkLog, insertLog, sessionStart, lastOk>>

\* synchronize_kernels up to the first stream item.
SynchronizeKernels ==
    /\ pc = "kernels"
    /\ phases' = Append(phases, "SyncingKernels")
    /\ checkLog' = <<>>
    /\ insertLog' = <<>>
    /\ LET local_num_kernels == fetch_mmr_size(store, "Kernel")
           remote_num_kernels == headers[horizon_sync_height].kernel_mmr_size
       IN  \/ /\ Fail("ChainStorageError", "kernels")
              /\ UNCHANGED loopVars
           \/ /\ AlreadySynchronized(local_num_kernels, remote_num_kernels)
              /\ pc' = AfterKernels
              /\ start' = local_num_kernels
              /\ end' = remote_num_kernels
              /\ UNCHANGED <<result, syncErr, errOrigin, current_header, mmr_position,
                             kernels, output_hashes, rp_hashes, txn, msgUtxos, msgBitmaps>>
           \/ /\ ~AlreadySynchronized(local_num_kernels, remote_num_kernels)
              /\ start' = local_num_kernels
              /\ end' = remote_num_kernels
              /\ mmr_position' = local_num_kernels
              /\ current_header' = fetch_header_containing_kernel_mmr(local_num_kernels + 1)
              /\ ResetLoop
              /\ \/ /\ pc' = "kernel_stream"
                    /\ UNCHANGED <<result, syncErr, errOrigin>>
                 \/ Fail("RpcError", "kernels")
    /\ UNCHANGED <<chainVars, otherVars, peerVars, validatorVars, dbVars, rollbackCalls, commitLog, sessionStart, lastOk>>

\* One iteration of `while let Some(kernel) = kernel_stream.next().await`.
KernelStreamNext ==
    /\ pc = "kernel_stream"
    /\ \/ \* the stream is exhausted: Ok(())
          /\ pc' = AfterKernels
          /\ ResetLoop
          /\ UNCHANGED <<result, syncErr, errOrigin, current_header, mmr_position, start, end,
                         dbVars, commitLog, checkLog, insertLog>>
       \/ \* the item is an RPC error, or does not convert to a TransactionKernel
          /\ \E err \in {"RpcError", "ConversionError"} : Fail(err, "kernels")
          /\ ResetLoop
          /\ UNCHANGED <<current_header, mmr_position, start, end, dbVars, commitLog,
                         checkLog, insertLog>>
       \/ /\ mmr_position < end + MaxExtra
          /\ \E hash \in KernelChoices(mmr_position) :
              LET buffered == Append(kernels, hash)
                  hdr == headers[current_header]
                  txn1 == Append(txn, [op |-> "insert_kernel", hash |-> hash,
                                       header |-> hdr.hash, pos |-> mmr_position])
                  seed == fetch_block_accumulated_data(store, hdr.prev_hash).kernels
                  txn2 == Append(txn1, [op |-> "update_pruned_hash_set", tree |-> "Kernel",
                                        header |-> hdr.hash, set |-> seed \o buffered])
                  matches == KernelRootMatches(seed, buffered, current_header)
              IN  /\ insertLog' = Append(insertLog, [tree |-> "Kernel", pos |-> mmr_position,
                                                   header |-> current_header])
                  /\ IF AtKernelBoundary(mmr_position, current_header)
                     THEN /\ checkLog' = Append(checkLog, [tree |-> "Kernel", header |-> current_header,
                                                           pos |-> mmr_position,
                                                           seed |-> seed, buffered |-> buffered])
                          /\ IF ~matches
                             THEN /\ Fail("InvalidMmrRoot_Kernel", "kernels")
                                  /\ ResetLoop
                                  /\ UNCHANGED <<current_header, mmr_position, start, end,
                                                 dbVars, commitLog>>
                             ELSE \/ \* txn.commit() succeeds
                                     /\ store' = ApplyTxn(store, txn2)
                                     /\ commitLog' = Append(commitLog,
                                            [tree |-> "Kernel", header |-> current_header,
                                             pos |-> mmr_position, ops |-> txn2, seed |-> seed, buffered |-> buffered])
                                     /\ txn' = <<>>
                                     /\ kernels' = <<>>
                                     /\ current_header' = NextHeader(current_header, mmr_position, end)
                                     /\ mmr_position' = NextPosition(mmr_position)
                                     /\ UNCHANGED <<ctlVars, start, end, output_hashes, rp_hashes,
                                                    msgUtxos, msgBitmaps, scopeOpen, snapshot>>
                                  \/ \* txn.commit() fails
                                     /\ Fail("ChainStorageError", "kernels")
                                     /\ ResetLoop
                                     /\ UNCHANGED <<current_header, mmr_position, start, end,
                                                    dbVars, commitLog>>
                     ELSE /\ kernels' = buffered
                          /\ txn' = txn1
                          /\ mmr_position' = NextPosition(mmr_position)
                          /\ UNCHANGED <<ctlVars, current_header, start, end, output_hashes,
                                         rp_hashes, msgUtxos, msgBitmaps, dbVars, commitLog,
                                         checkLog>>
    /\ UNCHANGED <<chainVars, otherVars, peerVars, validatorVars, phases, rollbackCalls, sessionStart, lastOk>>

\* synchronize_outputs up to the first stream item.
SynchronizeOutputs ==
    /\ pc = "outputs"
    /\ phases' = Append(phases, "SyncingOutputs")
    /\ checkLog' = <<>>
    /\ insertLog' = <<>>
    /\ LET local_num_outputs == fetch_mmr_size(store, "Utxo")
           remote_num_outputs == headers[horizon_sync_height].output_mmr_size
       IN  \/ /\ Fail("ChainStorageError", "outputs")
              /\ UNCHANGED loopVars
           \/ /\ AlreadySynchronized(local_num_outputs, remote_num_outputs)
              /\ pc' = AfterOutputs
              /\ start' = local_num_outputs
              /\ end' = remote_num_outputs
              /\ UNCHANGED <<result, syncErr, errOrigin, current_header, mmr_position,
                             kernels, output_hashes, rp_hashes, txn, msgUtxos, msgBitmaps>>
           \/ /\ ~AlreadySynchronized(local_num_outputs, remote_num_outputs)
              /\ start' = local_num_outputs
              /\ end' = remote_num_outputs
              /\ mmr_position' = local_num_outputs
              /\ current_header' = fetch_header_containing_utxo_mmr(local_num_outputs + 1)
              /\ ResetLoop
              /\ \/ /\ pc' = "output_stream"
                    /\ UNCHANGED <<result, syncErr, errOrigin>>
                 \/ Fail("RpcError", "outputs")
    /\ UNCHANGED <<chainVars, otherVars, peerVars, validatorVars, dbVars, rollbackCalls, commitLog, sessionStart, lastOk>>

\* `output_stream.next().await`: the stream ends, fails, or yields a response
\* with some UTXOs and some deleted bitmaps.
OutputStreamNext ==
    /\ pc = "output_stream"
    /\ msgUtxos = 0
    /\ \/ /\ pc' = AfterOutputs
          /\ ResetLoop
          /\ UNCHANGED <<result, syncErr, errOrigin>>
       \/ /\ Fail("RpcError", "outputs")
          /\ ResetLoop
       \/ /\ \E n \in 1..MaxMsgUtxos, m \in 0..MaxMsgUtxos :
                /\ mmr_position + n <= end + MaxExtra
                /\ msgUtxos' = n
                /\ msgBitmaps' = m
          /\ UNCHANGED <<ctlVars, kernels, output_hashes, rp_hashes, txn>>
    /\ UNCHANGED <<chainVars, otherVars, peerVars, validatorVars, dbVars, current_header, mmr_position, start, end, histVars>>


\* One iteration of `for utxo in utxos` inside the response loop.
ProcessUtxo ==
    /\ pc = "output_stream"
    /\ msgUtxos > 0
    /\ \/ \* a full output that does not convert to a TransactionOutput
          /\ Fail("ConversionError", "outputs")
          /\ ResetLoop
          /\ UNCHANGED <<current_header, mmr_position, start, end, dbVars, commitLog,
                         checkLog, insertLog>>
       \/ \E utxo \in UtxoChoices(mmr_position) :
            LET hdr == headers[current_header]
                oh == Append(output_hashes, utxo.hash)
                rh == Append(rp_hashes, utxo.rp)
                txn1 == Append(txn, [op |-> "insert_output", hash |-> utxo.hash, rp |-> utxo.rp,
                                     header |-> hdr.hash, pos |-> mmr_position,
                                     pruned |-> ~utxo.full])
                block_data == fetch_block_accumulated_data(store, hdr.prev_hash)
                outLeaves == block_data.outputs \o oh
                rpLeaves == block_data.range_proofs \o rh
            IN  /\ insertLog' = Append(insertLog, [tree |-> "Utxo", pos |-> mmr_position,
                                                 header |-> current_header])
                /\ IF AtOutputBoundary(mmr_position, current_header)
                   THEN IF deleted_diff_is_none(msgBitmaps)
                        THEN \* deleted_bitmaps.next() is None
                             /\ Fail("IncorrectResponse", "outputs")
                             /\ ResetLoop
                             /\ UNCHANGED <<current_header, mmr_position, start, end, dbVars,
                                            commitLog, checkLog>>
                        ELSE \E bytes \in BitmapChoices :
                             LET deleted == DeletedAfterDiff(block_data.deleted,
                                                             BitmapDeserialize(bytes))
                                 verdict == OutputRootsVerdict(outLeaves, rpLeaves, deleted,
                                                               current_header)
                                 txn2 == txn1 \o
                                     <<[op |-> "update_pruned_hash_set", tree |-> "Utxo",
                                        header |-> hdr.hash, set |-> outLeaves],
                                       [op |-> "update_pruned_hash_set", tree |-> "RangeProof",
                                        header |-> hdr.hash, set |-> rpLeaves],
                                       [op |-> "update_deleted", header |-> hdr.hash,
                                        deleted |-> deleted]>>
                             IN  /\ checkLog' = Append(checkLog, [tree |-> "Utxo", header |-> current_header,
                                                   pos |-> mmr_position, outLeaves |-> outLeaves,
                                                   rpLeaves |-> rpLeaves, deleted |-> deleted])
                                 /\ IF verdict /= "ok"
                                    THEN /\ Fail(verdict, "outputs")
                                         /\ ResetLoop
                                         /\ UNCHANGED <<current_header, mmr_position, start, end,
                                                        dbVars, commitLog>>
                                    ELSE \/ \* txn.commit() succeeds
                                            /\ store' = ApplyTxn(store, txn2)
                                            /\ commitLog' = Append(commitLog,
                                                 [tree |-> "Utxo", header |-> current_header,
                                                  pos |-> mmr_position, ops |-> txn2, outLeaves |-> outLeaves,
                                                  rpLeaves |-> rpLeaves, deleted |-> deleted])
                                            /\ txn' = <<>>
                                            /\ output_hashes' = <<>>
                                            /\ rp_hashes' = <<>>
                                            /\ msgUtxos' = msgUtxos - 1
                                            /\ msgBitmaps' = msgBitmaps - 1
                                            /\ current_header' =
                                                 NextHeader(current_header, mmr_position, end)
                                            /\ mmr_position' = NextPosition(mmr_position)
                                            /\ UNCHANGED <<ctlVars, start, end, kernels,
                                                           scopeOpen, snapshot>>
                                         \/ \* txn.commit() fails
                                            /\ Fail("ChainStorageError", "outputs")
                                            /\ ResetLoop
                                            /\ UNCHANGED <<current_header, mmr_position, start,
                                                           end, dbVars, commitLog>>
                   ELSE /\ output_hashes' = oh
                        /\ rp_hashes' = rh
                        /\ txn' = txn1
                        /\ msgUtxos' = msgUtxos - 1
                        /\ mmr_position' = NextPosition(mmr_position)
                        /\ UNCHANGED <<ctlVars, current_header, start, end, kernels, msgBitmaps,
                                       dbVars, commitLog, checkLog>>
    /\ UNCHANGED <<chainVars, otherVars, peerVars, validatorVars, phases, rollbackCalls, sessionStart, lastOk>>

\* finalize_horizon_sync: fetch_chain_header, then one write transaction.
FinalizeHorizonSync ==
    /\ pc = "finalize"
    /\ phases' = Append(phases, "Finalizing")
    /\ \/ \* fetch_chain_header or commit fails
          /\ Fail("ChainStorageError", "finalize")
          /\ UNCHANGED <<dbVars, commitLog>>
       \/ /\ store' = ApplyTxn(store, FinalizeOps(horizon_sync_height))
          /\ commitLog' = Append(commitLog, [tree |-> "Metadata", header |-> horizon_sync_height,
                                             ops |-> FinalizeOps(horizon_sync_height)])
          /\ pc' = "done"
          /\ result' = OkResult
          /\ UNCHANGED <<syncErr, errOrigin, scopeOpen, snapshot>>
    /\ UNCHANGED <<chainVars, otherVars, peerVars, validatorVars, loopVars, rollbackCalls, checkLog, insertLog,
                   sessionStart, lastOk>>

\* `self.rollback().await?` in the error arms of synchronize(): what
\* synchronize() returns when rollback() failed while handling the sync error
\* err of phase origin.
RollbackFailureResult_KeepsSyncError(err, origin) == ErrResult(err, origin)
RollbackFailureResult(err, origin) == ErrResult("ChainStorageError", "rollback")

\* rollback(): horizon_sync_rollback discards the scope, or fails and the
\* `?` returns its error in place of the sync error.
Rollback ==
    /\ pc = "rollback"
    /\ rollbackCalls' = rollbackCalls + 1
    /\ pc' = "done"
    /\ \/ /\ store' = horizon_sync_rollback_store
          /\ scopeOpen' = FALSE
          /\ result' = ErrResult(syncErr, errOrigin)
          /\ UNCHANGED snapshot
       \/ /\ result' = RollbackFailureResult(syncErr, errOrigin)
          /\ UNCHANGED dbVars
    /\ UNCHANGED <<chainVars, otherVars, peerVars, validatorVars, syncErr, errOrigin, loopVars, phases, commitLog, checkLog,
                   insertLog, sessionStart, lastOk>>

\* The state machine runs synchronize() again on the same store.
NewSession ==
    /\ pc = "done"
    /\ sessionStart' = store
    /\ lastOk' = result.ok
    /\ pc' = "idle"
    /\ result' = NoResult
    /\ syncErr' = "none"
    /\ errOrigin' = "none"
    /\ phases' = <<>>
    /\ rollbackCalls' = 0
    /\ commitLog' = <<>>
    /\ checkLog' = <<>>
    /\ insertLog' = <<>>
    /\ current_header' = 0
    /\ mmr_position' = 0
    /\ start' = 0
    /\ end' = 0
    /\ ResetLoop
    /\ UNCHANGED <<chainVars, otherVars, peerVars, validatorVars, dbVars>>

\* The shutdown signal fires while synchronize() is suspended on
\* `stream.next().await`.  HorizonStateSynchronization holds no shutdown signal
\* and no branch of its loops observes one: a session that stops does so
\* because its future is dropped at the await: its locals are gone and
\* nothing of synchronize() runs after that.
Shutdown ==
    /\ pc \in {"kernel_stream", "output_stream"}
    /\ pc' = "stopped"
    /\ ResetLoop
    /\ current_header' = 0
    /\ mmr_position' = 0
    /\ start' = 0
    /\ end' = 0
    /\ checkLog' = <<>>
    /\ insertLog' = <<>>
    /\ UNCHANGED <<chainVars, otherVars, peerVars, validatorVars, dbVars, result, syncErr, errOrigin, phases, rollbackCalls,
                   commitLog, sessionStart, lastOk>>

\* A second HorizonStateSynchronization started on the same store.  Of its
\* synchronize() only the scope operations are followed: prepare_for_sync
\* passes when horizon_sync_begin accepts and returns the error otherwise.
ConcurrentPrepareForSync ==
    /\ other = "idle"
    /\ IF horizon_sync_begin_allowed
       THEN /\ scopeOpen' = TRUE
            /\ snapshot' = store
            /\ other' = "active"
       ELSE /\ other' = "failed"
            /\ UNCHANGED <<scopeOpen, snapshot>>
    /\ UNCHANGED <<chainVars, peerVars, validatorVars, store, ctlVars, loopVars, histVars>>

\* The second session returns: through rollback(), which closes the scope, or
\* with Ok or a recoverable error, which leave it open.
ConcurrentReturn ==
    /\ other = "active"
    /\ other' = "idle"
    /\ \/ /\ scopeOpen' = FALSE
          /\ store' = horizon_sync_rollback_store
       \/ UNCHANGED <<scopeOpen, store>>
    /\ UNCHANGED <<chainVars, peerVars, validatorVars, snapshot, ctlVars, loopVars, histVars>>

Next ==
    \/ PrepareForSync
    \/ SynchronizeKernels
    \/ KernelStreamNext
    \/ SynchronizeOutputs
    \/ OutputStreamNext
    \/ ProcessUtxo
    \/ FinalizeHorizonSync
    \/ Rollback
    \/ Shutdown
    \/ NewSession

Spec == Init /\ [][Next]_vars

\* The same session with a second one contending for the store.
NextConcurrent ==
    \/ Next
    \/ ConcurrentPrepareForSync
    \/ ConcurrentReturn

SpecConcurrent == Init /\ [][NextConcurrent]_vars


\* ------------------------------------------------------------------ sync peer helpers
\* select_sync_peer: the results it may return.  `choose` draws any element,
\* `first` the head; both are None on an empty slice, which becomes NoSyncPeers.
select_sync_peer_Last(random_sync_peer_with_chain, peers) ==
    IF peers = <<>>
    THEN {[ok |-> FALSE, err |-> "NoSyncPeers", selected |-> NoPeer]}
    ELSE {[ok |-> TRUE, err |-> "none", selected |-> peers[Len(peers)]]}
select_sync_peer(random_sync_peer_with_chain, peers) ==
    IF peers = <<>>
    THEN {[ok |-> FALSE, err |-> "NoSyncPeers", selected |-> NoPeer]}
    ELSE IF random_sync_peer_with_chain
         THEN {[ok |-> TRUE, err |-> "none", selected |-> peers[i]] : i \in 1..Len(peers)}
         ELSE {[ok |-> TRUE, err |-> "none", selected |-> Head(peers)]}

\* exclude_sync_peer: `retain(|p| p.node_id != sync_peer.node_id)`, then
\* NoSyncPeers if the list is empty.
exclude_sync_peer_StopsOnEmpty(peers, sync_peer) ==
    LET Keep(p) == p.node_id /= sync_peer.node_id
        kept == SelectSeq(peers, Keep)
    IN  IF kept = <<>>
        THEN [peers |-> peers, ok |-> FALSE, err |-> "NoSyncPeers"]
        ELSE [peers |-> kept, ok |-> TRUE, err |-> "none"]
exclude_sync_peer(peers, sync_peer) ==
    LET Keep(p) == p.node_id /= sync_peer.node_id
        kept == SelectSeq(peers, Keep)
    IN  IF kept = <<>>
        THEN [peers |-> kept, ok |-> FALSE, err |-> "NoSyncPeers"]
        ELSE [peers |-> kept, ok |-> TRUE, err |-> "none"]

sessionVars == <<chainVars, dbVars, ctlVars, loopVars, histVars, otherVars>>

\* A caller selects a sync peer from the working list.
SelectSyncPeer ==
    /\ \E random \in BOOLEAN :
         \E r \in select_sync_peer(random, sync_peers) :
            helperCall' = [op |-> "select", random |-> random, peer |-> NoPeer,
                           input |-> sync_peers, ok |-> r.ok, err |-> r.err,
                           selected |-> r.selected, ban_duration |-> 0, reason |-> "none"]
    /\ UNCHANGED <<sessionVars, validatorVars, sync_peers, banRequests>>

\* A caller excludes a peer, one of the list or not, from the working list.
ExcludeSyncPeer ==
    /\ \E peer \in SyncPeer :
         LET r == exclude_sync_peer(sync_peers, peer)
         IN  /\ sync_peers' = r.peers
             /\ helperCall' = [op |-> "exclude", random |-> FALSE, peer |-> peer,
                               input |-> sync_peers, ok |-> r.ok, err |-> r.err,
                               selected |-> NoPeer, ban_duration |-> 0, reason |-> "none"]
    /\ UNCHANGED <<sessionVars, validatorVars, banRequests>>

InitPeers ==
    /\ headers = [h \in Heights |-> MakeHeader([i \in 1..MaxHeight |-> <<1, 1>>], "none", h)]
    /\ InitSession
    /\ sync_peers \in PeerLists
    /\ banRequests = <<>>
    /\ helperCall = NoCall
    /\ block = NoBlock
    /\ valCall = NoValCall

NextPeers ==
    \/ SelectSyncPeer
    \/ ExcludeSyncPeer

SpecPeers == InitPeers /\ [][NextPeers]_vars

\* ------------------------------------------------------------------ ban_sync_peer
DEFAULT_PEER_BAN_DURATION == 24 * 60 * 60
SHORT_TERM_PEER_BAN_DURATION == 30 * 60
BanDurations == {DEFAULT_PEER_BAN_DURATION, SHORT_TERM_PEER_BAN_DURATION}
BanReasons == {"invalid response", "no response"}

\* The requests ban_sync_peer sends to the connectivity collaborator.
ban_peer_until_requests(sync_peer, ban_duration, reason) ==
    <<[node_id |-> sync_peer.node_id, ban_duration |-> ban_duration, reason |-> reason]>>

\* ban_sync_peer after the ban request was answered: `.await?` returns the
\* connectivity error before exclude_sync_peer is reached.
ban_sync_peer_ExcludesAnyway(peers, sync_peer, ban_ok) ==
    LET r == exclude_sync_peer(peers, sync_peer)
    IN  IF ban_ok THEN r ELSE [r EXCEPT !.ok = FALSE, !.err = "ConnectivityError"]
ban_sync_peer(peers, sync_peer, ban_ok) ==
    IF ban_ok
    THEN exclude_sync_peer(peers, sync_peer)
    ELSE [peers |-> peers, ok |-> FALSE, err |-> "ConnectivityError"]

\* A caller bans a peer; the connectivity collaborator accepts the request or
\* fails it.
BanSyncPeer ==
    /\ Len(banRequests) < MaxBans
    /\ \E peer \in SyncPeer, ban_duration \in BanDurations, reason \in BanReasons, ban_ok \in BOOLEAN :
         LET r == ban_sync_peer(sync_peers, peer, ban_ok)
         IN  /\ banRequests' = banRequests \o ban_peer_until_requests(peer, ban_duration, reason)
             /\ sync_peers' = r.peers
             /\ helperCall' = [op |-> "ban", random |-> FALSE, peer |-> peer,
                               input |-> sync_peers, ok |-> r.ok, err |-> r.err,
                               selected |-> NoPeer, ban_duration |-> ban_duration,
                               reason |-> reason]
    /\ UNCHANGED <<sessionVars, validatorVars>>

\* The working lists ban_sync_peer is called on.
InitBan ==
    /\ headers = [h \in Heights |-> MakeHeader([i \in 1..MaxHeight |-> <<1, 1>>], "none", h)]
    /\ InitSession
    /\ sync_peers \in UNION {PeerListsOfLen(n) : n \in 0..MaxBanPeers}
    /\ banRequests = <<>>
    /\ helperCall = NoCall
    /\ block = NoBlock
    /\ valCall = NoValCall

NextBan == BanSyncPeer

SpecBan == InitBan /\ [][NextBan]_vars

\* ------------------------------------------------------------------ block validator
\* Blocks handed to the validator.  An input is its commitment and the
\* maturity of its features; an output is its commitment; a kernel is the
\* chain's kernel at its position or that kernel with an altered signature.
\* weight, coinbase_ok and balance_ok are the outcomes of
\* AggregateBody::calculate_weight, Block::check_coinbase_output and
\* AggregateBody::validate_internal_consistency for the block.
Commitments == {1, 2}
BlockHeights == {0, 1}
Maturities == {0, 1, 2}
get_max_block_transaction_weight == 1
Weights == {get_max_block_transaction_weight, get_max_block_transaction_weight + 1}
HeaderFields == {"input_mr", "kernel_mr", "kernel_mmr_size", "output_mr", "range_proof_mr",
                 "witness_mr", "output_mmr_size"}
\* The header fields block validation is specified to compare.
CheckedFields == HeaderFields \ {"input_mr", "witness_mr"}

SeqsUpTo(S, n) == UNION {[1..k -> S] : k \in 0..n}
TransactionInput == [commitment : Commitments, maturity : Maturities]
KernelSeqs(n) == {ks \in SeqsUpTo(UNION {KernelChoices(i) : i \in 1..n}, n) :
                     \A i \in 1..Len(ks) : ks[i] \in KernelChoices(i)}
Bodies(inputs, nInputs, nOutputs, nKernels) ==
    [inputs : SeqsUpTo(inputs, nInputs),
     outputs : SeqsUpTo(Commitments, nOutputs),
     kernels : KernelSeqs(nKernels)]

\* calculate_mmr_roots(block): roots and sizes of the trees after the block's
\* leaves are replayed on the parent's accumulated state.
calculate_mmr_roots(body) ==
    [input_mr |-> <<"mr", "input", body.inputs>>,
     kernel_mr |-> <<"mr", "kernel", body.kernels>>,
     output_mr |-> <<"mr", "output", body.outputs>>,
     range_proof_mr |-> <<"mr", "range_proof", body.outputs>>,
     witness_mr |-> <<"mr", "witness", body.outputs>>,
     kernel_mmr_size |-> fetch_mmr_size(GenesisStore, "Kernel") + Len(body.kernels),
     output_mmr_size |-> fetch_mmr_size(GenesisStore, "Utxo") + Len(body.outputs)]

\* A header at `height` for `body` whose fields named in `mismatch` differ
\* from the replayed values.
BlockHeaderFor(height, body, mismatch) ==
    LET r == calculate_mmr_roots(body)
        Root(f) == IF f \in mismatch THEN <<"mr", "other">> ELSE r[f]
        Size(f) == IF f \in mismatch THEN r[f] + 1 ELSE r[f]
    IN  [height |-> height,
         input_mr |-> Root("input_mr"), kernel_mr |-> Root("kernel_mr"),
         output_mr |-> Root("output_mr"), range_proof_mr |-> Root("range_proof_mr"),
         witness_mr |-> Root("witness_mr"),
         kernel_mmr_size |-> Size("kernel_mmr_size"),
         output_mmr_size |-> Size("output_mmr_size")]

BlocksWith(bodies, mismatches) ==
    {[header |-> BlockHeaderFor(h, body, m), body |-> body, weight |-> w,
      coinbase_ok |-> cb, balance_ok |-> bal] :
        h \in BlockHeights, body \in bodies, m \in mismatches, w \in Weights,
        cb \in BOOLEAN, bal \in BOOLEAN}

\* check_block_weight
check_block_weight_NoGenesisExemption(b) ==
    IF b.weight <= get_max_block_transaction_weight THEN "none" ELSE "BlockTooLarge"
check_block_weight(b) ==
    IF b.weight <= get_max_block_transaction_weight \/ b.header.height = 0
    THEN "none" ELSE "BlockTooLarge"

\* BlockValidator::check_inputs: the loop over body.inputs() from input i on.
RECURSIVE check_inputs_from(_, _)
check_inputs_from(b, i) ==
    IF i > Len(b.body.inputs) THEN "none"
    ELSE IF b.body.inputs[i].maturity > b.header.height THEN "InputMaturity"
    ELSE IF \E o \in 1..Len(b.body.outputs) : b.body.outputs[o] = b.body.inputs[i].commitment
         THEN "NoCutThrough"
    ELSE check_inputs_from(b, i + 1)

RECURSIVE check_inputs_from_CutThroughFirst(_, _)
check_inputs_from_CutThroughFirst(b, i) ==
    IF i > Len(b.body.inputs) THEN "none"
    ELSE IF \E o \in 1..Len(b.body.outputs) : b.body.outputs[o] = b.body.inputs[i].commitment
         THEN "NoCutThrough"
    ELSE IF b.body.inputs[i].maturity > b.header.height THEN "InputMaturity"
    ELSE check_inputs_from_CutThroughFirst(b, i + 1)

check_inputs_CutThroughFirst(b) == check_inputs_from_CutThroughFirst(b, 1)
check_inputs(b) == check_inputs_from(b, 1)

\* BlockValidator::check_outputs
check_outputs(b) == IF b.coinbase_ok THEN "none" ELSE "InvalidCoinbase"

\* check_accounting_balance
check_accounting_balance(b) ==
    IF b.header.height = 0 THEN "none"
    ELSE IF b.balance_ok THEN "none" ELSE "TransactionError"

\* is_all_unique_and_sorted
is_all_unique_and_sorted_AllowsDuplicates(items) ==
    \A i \in 2..Len(items) : ~(items[i] < items[i - 1])
is_all_unique_and_sorted(items) ==
    \A i \in 2..Len(items) : ~(items[i] <= items[i - 1])

\* check_sorting_and_duplicates; inputs are ordered by their commitment.
check_sorting_and_duplicates(body) ==
    IF ~is_all_unique_and_sorted([i \in 1..Len(body.inputs) |-> body.inputs[i].commitment])
    THEN "UnsortedOrDuplicateInput"
    ELSE IF ~is_all_unique_and_sorted(body.outputs) THEN "UnsortedOrDuplicateOutput"
    ELSE "none"

\* BlockValidator::check_mmr_roots
BlockValidator_check_mmr_roots(header, mmr_roots) ==
    IF header.kernel_mr /= mmr_roots.kernel_mr THEN "MismatchedMmrRoots"
    ELSE IF header.output_mr /= mmr_roots.output_mr THEN "MismatchedMmrRoots"
    ELSE IF header.range_proof_mr /= mmr_roots.range_proof_mr THEN "MismatchedMmrRoots"
    ELSE "none"

\* validation::helpers::check_mmr_roots: the error and, for a size error, the
\* tree and the two sizes.
check_mmr_roots(b) ==
    LET mmr_roots == calculate_mmr_roots(b.body)
        header == b.header
    IN  IF header.input_mr /= mmr_roots.input_mr
        THEN [err |-> "MismatchedMmrRoots", detail |-> <<>>]
        ELSE IF header.kernel_mr /= mmr_roots.kernel_mr
        THEN [err |-> "MismatchedMmrRoots", detail |-> <<>>]
        ELSE IF header.kernel_mmr_size /= mmr_roots.kernel_mmr_size
        THEN [err |-> "MismatchedMmrSize",
              detail |-> <<"Kernel", mmr_roots.kernel_mmr_size, header.kernel_mmr_size>>]
        ELSE IF header.output_mr /= mmr_roots.output_mr
        THEN [err |-> "MismatchedMmrRoots", detail |-> <<>>]
        ELSE IF header.witness_mr /= mmr_roots.witness_mr
        THEN [err |-> "MismatchedMmrRoots", detail |-> <<>>]
        ELSE IF header.output_mmr_size /= mmr_roots.output_mmr_size
        THEN [err |-> "MismatchedMmrSize",
              detail |-> <<"Utxo", mmr_roots.output_mmr_size, header.output_mmr_size>>]
        ELSE [err |-> "none", detail |-> <<>>]

Step(name, err) == [name |-> name, err |-> err]

\* The steps of BlockValidator::validate (async) in program order, each with
\* the error its `?` would return.  The results of the kernel signature
\* verifications are bound to `a` and not looked at; the call of
\* check_accounting_balance is commented out.
AsyncChecks_RootsFirst(b, db_ok) ==
    <<Step("calculate_mmr_roots", IF db_ok THEN "none" ELSE "ChainStorageError"),
      Step("check_mmr_roots", BlockValidator_check_mmr_roots(b.header, calculate_mmr_roots(b.body))),
      Step("check_block_weight", check_block_weight(b)),
      Step("check_inputs", check_inputs(b)),
      Step("check_outputs", check_outputs(b)),
      Step("verify_signature", "none")>>
AsyncChecks(b, db_ok) ==
    <<Step("check_block_weight", check_block_weight(b)),
      Step("check_inputs", check_inputs(b)),
      Step("check_outputs", check_outputs(b)),
      Step("verify_signature", "none"),
      Step("calculate_mmr_roots", IF db_ok THEN "none" ELSE "ChainStorageError"),
      Step("check_mmr_roots", BlockValidator_check_mmr_roots(b.header, calculate_mmr_roots(b.body)))>>

\* The steps of <BlockValidator as Validation<Block>>::validate.
SyncChecks(b, db_ok) ==
    <<Step("check_block_weight", check_block_weight(b)),
      Step("check_inputs", check_inputs(b)),
      Step("check_outputs", check_outputs(b)),
      Step("check_accounting_balance", check_accounting_balance(b)),
      Step("calculate_mmr_roots", IF db_ok THEN "none" ELSE "ChainStorageError"),
      Step("check_mmr_roots", BlockValidator_check_mmr_roots(b.header, calculate_mmr_roots(b.body)))>>

\* `?` after every step: the steps run up to the first error, which is returned.
FailFast(checks) ==
    LET bad == {i \in 1..Len(checks) : checks[i].err /= "none"}
        last == IF bad = {} THEN Len(checks)
                ELSE CHOOSE i \in bad : \A j \in bad : i <= j
    IN  [ok |-> bad = {},
         err |-> IF bad = {} THEN "none" ELSE checks[last].err,
         trace |-> [i \in 1..last |-> checks[i].name]]

Ran(call, name) == \E i \in 1..Len(call.trace) : call.trace[i] = name

\* The write operations validate() queues on the backing store: it only reads.
BlockValidatorWrites_RecordsAcceptedBlock(b, outcome) ==
    IF outcome.ok
    THEN <<[op |-> "set_metadata", key |-> "ChainHeight", value |-> b.header.height]>>
    ELSE <<>>
BlockValidatorWrites(b, outcome) == <<>>

ValidationCall(entry, b, outcome) ==
    [entry |-> entry, ok |-> outcome.ok, err |-> outcome.err, detail |-> <<>>,
     trace |-> outcome.trace,
     signatures |-> IF Ran(outcome, "verify_signature")
                    THEN [i \in 1..Len(b.body.kernels) |-> verify_signature(b.body.kernels[i])]
                    ELSE <<>>]

\* BlockValidator::validate(&self, block).await, called once on the block.
ValidateAsync ==
    /\ valCall = NoValCall
    /\ \E db_ok \in BOOLEAN :
         LET outcome == FailFast(AsyncChecks(block, db_ok))
         IN  /\ valCall' = ValidationCall("async", block, outcome)
             /\ store' = ApplyTxn(store, BlockValidatorWrites(block, outcome))
    /\ UNCHANGED <<chainVars, scopeOpen, snapshot, ctlVars, loopVars, histVars, otherVars,
                   peerVars, block>>

\* <BlockValidator as Validation<Block>>::validate(&self, block), called once
\* on the block.
ValidateSync ==
    /\ valCall = NoValCall
    /\ \E db_ok \in BOOLEAN :
         LET outcome == FailFast(SyncChecks(block, db_ok))
         IN  /\ valCall' = ValidationCall("sync", block, outcome)
             /\ store' = ApplyTxn(store, BlockValidatorWrites(block, outcome))
    /\ UNCHANGED <<chainVars, scopeOpen, snapshot, ctlVars, loopVars, histVars, otherVars,
                   peerVars, block>>

\* A fixed header chain and an idle session: the validator's surroundings.
InitChainIdle ==
    /\ headers = [h \in Heights |-> MakeHeader([i \in 1..MaxHeight |-> <<1, 1>>], "none", h)]
    /\ InitSession
    /\ sync_peers = <<>>
    /\ banRequests = <<>>
    /\ helperCall = NoCall
    /\ valCall = NoValCall

InitValidator ==
    /\ InitChainIdle
    /\ block \in BlocksWith(Bodies({i \in TransactionInput : i.maturity >= 1},
                                    MaxInputs, MaxOutputs, MaxKernels),
                             {m \in SUBSET CheckedFields : Cardinality(m) <= 1})

NextValidator ==
    \/ ValidateAsync
    \/ ValidateSync

SpecValidator == InitValidator /\ [][NextValidator]_vars

\* BlockValidator::check_inputs called on its own.
CheckInputs ==
    /\ valCall = NoValCall
    /\ LET err == check_inputs(block)
       IN  valCall' = [entry |-> "check_inputs", ok |-> err = "none", err |-> err,
                       detail |-> <<>>, trace |-> <<"check_inputs">>, signatures |-> <<>>]
    /\ UNCHANGED <<sessionVars, peerVars, block>>

\* check_sorting_and_duplicates called on the body.
CheckSortingAndDuplicates ==
    /\ valCall = NoValCall
    /\ LET err == check_sorting_and_duplicates(block.body)
       IN  valCall' = [entry |-> "check_sorting_and_duplicates", ok |-> err = "none",
                       err |-> err, detail |-> <<>>,
                       trace |-> <<"check_sorting_and_duplicates">>, signatures |-> <<>>]
    /\ UNCHANGED <<sessionVars, peerVars, block>>

\* check_block_weight called on its own.
CheckBlockWeight ==
    /\ valCall = NoValCall
    /\ LET err == check_block_weight(block)
       IN  valCall' = [entry |-> "check_block_weight", ok |-> err = "none", err |-> err,
                       detail |-> <<>>, trace |-> <<"check_block_weight">>, signatures |-> <<>>]
    /\ UNCHANGED <<sessionVars, peerVars, block>>

\* Body weights below, at and above the maximum.
AllWeights == 0..(get_max_block_transaction_weight + 1)

InitBodyChecks ==
    /\ InitChainIdle
    /\ block \in {[b EXCEPT !.weight = w] :
                    b \in BlocksWith(Bodies(TransactionInput, MaxBodyLen, MaxBodyLen, 0), {{}}),
                    w \in AllWeights}

NextBodyChecks ==
    \/ CheckInputs
    \/ CheckSortingAndDuplicates
    \/ CheckBlockWeight

SpecBodyChecks == InitBodyChecks /\ [][NextBodyChecks]_vars

\* BlockValidator::check_mmr_roots on the roots calculate_mmr_roots returned.
CheckMmrRoots ==
    /\ valCall = NoValCall
    /\ LET err == BlockValidator_check_mmr_roots(block.header, calculate_mmr_roots(block.body))
       IN  valCall' = [entry |-> "BlockValidator::check_mmr_roots", ok |-> err = "none",
                       err |-> err, detail |-> <<>>, trace |-> <<"check_mmr_roots">>,
                       signatures |-> <<>>]
    /\ UNCHANGED <<sessionVars, peerVars, block>>

\* validation::helpers::check_mmr_roots
HelperCheckMmrRoots ==
    /\ valCall = NoValCall
    /\ LET r == check_mmr_roots(block)
       IN  valCall' = [entry |-> "helpers::check_mmr_roots", ok |-> r.err = "none",
                       err |-> r.err, detail |-> r.detail, trace |-> <<"check_mmr_roots">>,
                       signatures |-> <<>>]
    /\ UNCHANGED <<sessionVars, peerVars, block>>

InitMmrRoots ==
    /\ InitChainIdle
    /\ block \in BlocksWith(Bodies({}, 0, MaxOutputs, MaxKernels), SUBSET HeaderFields)

NextMmrRoots ==
    \/ CheckMmrRoots
    \/ HelperCheckMmrRoots

SpecMmrRoots == InitMmrRoots /\ [][NextMmrRoots]_vars

\* ------------------------------------------------------------------ pure helpers
\* calc_median_timestamp: `assert!(!timestamps.is_empty())`, then the element
\* at len/2, or the mean of the elements at len/2 - 1 and len/2 (0-based).
calc_median_timestamp_UpperMiddle(timestamps) ==
    IF timestamps = <<>> THEN [panic |-> TRUE, median |-> 0]
    ELSE [panic |-> FALSE, median |-> timestamps[(Len(timestamps) \div 2) + 1]]
calc_median_timestamp(timestamps) ==
    IF timestamps = <<>> THEN [panic |-> TRUE, median |-> 0]
    ELSE LET mid_index == Len(timestamps) \div 2
         IN  [panic |-> FALSE,
              median |-> IF Len(timestamps) % 2 = 0
                         THEN (timestamps[mid_index] + timestamps[mid_index + 1]) \div 2
                         ELSE timestamps[mid_index + 1]]

\* is_all_unique_and_sorted called on a slice.
IsAllUniqueAndSorted ==
    /\ valCall = NoValCall
    /\ \E items \in SeqsUpTo(1..MaxItem, MaxItems) :
          valCall' = [entry |-> "is_all_unique_and_sorted", ok |-> is_all_unique_and_sorted(items),
                      err |-> "none", detail |-> items, trace |-> <<>>, signatures |-> <<>>]
    /\ UNCHANGED <<sessionVars, peerVars, block>>

\* check_sorting_and_duplicates called on a body of the given inputs and outputs.
CheckSortingOfBody ==
    /\ valCall = NoValCall
    /\ \E ins \in SeqsUpTo(1..MaxItem, MaxItems), outs \in SeqsUpTo(1..MaxItem, MaxItems) :
          LET body == [inputs |-> [i \in 1..Len(ins) |-> [commitment |-> ins[i], maturity |-> 0]],
                       outputs |-> outs, kernels |-> <<>>]
              err == check_sorting_and_duplicates(body)
          IN  valCall' = [entry |-> "check_sorting_and_duplicates", ok |-> err = "none",
                          err |-> err, detail |-> <<ins, outs>>, trace |-> <<>>,
                          signatures |-> <<>>]
    /\ UNCHANGED <<sessionVars, peerVars, block>>

\* calc_median_timestamp called on a list of timestamps.
CalcMedianTimestamp ==
    /\ valCall = NoValCall
    /\ \E timestamps \in SeqsUpTo(0..MaxTimestamp, MaxTimestamps) :
          LET r == calc_median_timestamp(timestamps)
          IN  valCall' = [entry |-> "calc_median_timestamp", ok |-> ~r.panic,
                          err |-> IF r.panic THEN "panic" ELSE "none",
                          detail |-> <<timestamps, r.median>>, trace |-> <<>>,
                          signatures |-> <<>>]
    /\ UNCHANGED <<sessionVars, peerVars, block>>

InitPureHelpers ==
    /\ InitChainIdle
    /\ block = NoBlock

NextPureHelpers ==
    \/ IsAllUniqueAndSorted
    \/ CheckSortingOfBody
    \/ CalcMedianTimestamp

SpecPureHelpers == InitPureHelpers /\ [][NextPureHelpers]_vars

\* ------------------------------------------------- header accumulated data
\* BlockHeaderAccumulatedData: the two per-algorithm accumulators, the achieved
\* difficulty of the header and the total.
MaxDifficulty == 6
MaxAchieved == 3
PowAlgorithms == {"Monero", "Blake", "Sha3"}

AccumulatedData(monero, blake, achieved) ==
    [accumulated_monero_difficulty |-> monero,
     accumulated_blake_difficulty |-> blake,
     achieved_difficulty |-> achieved,
     total_accumulated_difficulty |-> monero * blake]

\* The records a chain can start from.
FirstAccumulatedData == {AccumulatedData(m, b, a) : m \in 0..1, b \in 0..1, a \in 1..1}

\* Difficulty + Difficulty.
Difficulty_add(a, b) == a + b

\* The builder after achieved_difficulty(previous, algo, achieved): the fields
\* it has set, or a panic.
achieved_difficulty_ReplacesAccumulator(previous, algo, achieved) ==
    CASE algo = "Monero" ->
            [panic |-> FALSE, achieved_difficulty |-> achieved,
             accumulated_monero_difficulty |-> achieved,
             accumulated_blake_difficulty |-> previous.accumulated_blake_difficulty]
      [] algo = "Blake" ->
            [panic |-> TRUE, achieved_difficulty |-> 0,
             accumulated_monero_difficulty |-> 0, accumulated_blake_difficulty |-> 0]
      [] algo = "Sha3" ->
            [panic |-> FALSE, achieved_difficulty |-> achieved,
             accumulated_monero_difficulty |-> previous.accumulated_monero_difficulty,
             accumulated_blake_difficulty |-> achieved]
achieved_difficulty(previous, algo, achieved) ==
    CASE algo = "Monero" ->
            [panic |-> FALSE, achieved_difficulty |-> achieved,
             accumulated_monero_difficulty |->
                 Difficulty_add(previous.accumulated_monero_difficulty, achieved),
             accumulated_blake_difficulty |-> previous.accumulated_blake_difficulty]
      [] algo = "Blake" ->
            [panic |-> TRUE, achieved_difficulty |-> 0,
             accumulated_monero_difficulty |-> 0, accumulated_blake_difficulty |-> 0]
      [] algo = "Sha3" ->
            [panic |-> FALSE, achieved_difficulty |-> achieved,
             accumulated_monero_difficulty |-> previous.accumulated_monero_difficulty,
             accumulated_blake_difficulty |->
                 Difficulty_add(previous.accumulated_blake_difficulty, achieved)]

\* build() on a builder whose hash, kernel offset and target difficulty are
\* set; provided tells whether achieved_difficulty was called on it.
build(builder, provided) ==
    IF ~provided THEN [err |-> "InvalidOperation", data |-> AccumulatedData(0, 0, 0)]
    ELSE [err |-> "none",
          data |-> [accumulated_monero_difficulty |-> builder.accumulated_monero_difficulty,
                    accumulated_blake_difficulty |-> builder.accumulated_blake_difficulty,
                    achieved_difficulty |-> builder.achieved_difficulty,
                    total_accumulated_difficulty |->
                        builder.accumulated_monero_difficulty * builder.accumulated_blake_difficulty]]

\* The record of the chain's tip: the last one built, or the first record.
TipAccumulatedData(call) == call.detail[2]

\* The record of the next header is built from the record of its parent.
BuildAccumulatedData ==
    /\ valCall.entry \in {"none", "BlockHeaderAccumulatedDataBuilder"}
    /\ \E first \in FirstAccumulatedData, algo \in PowAlgorithms, achieved \in 1..MaxAchieved,
          provided \in BOOLEAN :
          LET previous == IF valCall = NoValCall THEN first ELSE TipAccumulatedData(valCall)
              builder == achieved_difficulty(previous, algo, achieved)
              built == build(builder, provided)
              panic == provided /\ builder.panic
              ok == ~panic /\ built.err = "none"
          IN  /\ previous.accumulated_monero_difficulty + achieved <= MaxDifficulty
              /\ previous.accumulated_blake_difficulty + achieved <= MaxDifficulty
              /\ valCall' = [entry |-> "BlockHeaderAccumulatedDataBuilder", ok |-> ok,
                             err |-> IF panic THEN "panic" ELSE built.err,
                             detail |-> <<previous, IF ok THEN built.data ELSE previous>>,
                             trace |-> <<algo, achieved>>, signatures |-> <<>>]
    /\ UNCHANGED <<sessionVars, peerVars, block>>

NextAccumulatedData == BuildAccumulatedData

SpecAccumulatedData == InitPureHelpers /\ [][NextAccumulatedData]_vars

\* ------------------------------------------------- check_inputs_are_utxos
\* Longest input list given to check_inputs_are_utxos.
MaxUtxoInputs == 2
\* Most outputs of the body given to check_inputs_are_utxos.
MaxUtxoBodyOutputs == 1

\* Two outputs of one commitment differ in their other fields and so in hash.
OutputFeatures == {"a", "b"}
OutputHash(commitment, features) == <<commitment, features>>
OutputHashes == {OutputHash(cm, f) : cm \in Commitments, f \in OutputFeatures}
\* TransactionInput::output_hash
output_hash(input) == OutputHash(input.commitment, input.features)
UtxoInputs == [commitment : Commitments, features : OutputFeatures]

\* The backend as check_inputs_are_utxos reads it: the UTXO set by commitment
\* and the outputs of the store, which hold every unspent one.
NoHash == <<>>
UtxoDbs ==
    {db \in [utxos : [Commitments -> {NoHash} \cup OutputHashes], outputs : SUBSET OutputHashes] :
        \A cm \in Commitments :
            db.utxos[cm] # NoHash => db.utxos[cm][1] = cm /\ db.utxos[cm] \in db.outputs}
fetch_unspent_output_hash_by_commitment(db, commitment) == db.utxos[commitment]
fetch_output(db, hash) == hash \in db.outputs

\* The body of the loop for one input: what the iteration ends in.
classify_input_BodyFirst(input, db, outputs) ==
    LET utxo_hash == fetch_unspent_output_hash_by_commitment(db, input.commitment)
    IN  IF utxo_hash # NoHash
        THEN IF utxo_hash = output_hash(input) THEN "continue" ELSE "InvalidInput"
        ELSE IF output_hash(input) \in outputs THEN "continue"
        ELSE IF fetch_output(db, output_hash(input)) THEN "ContainsSTxO"
        ELSE "not_found"
classify_input(input, db, outputs) ==
    LET utxo_hash == fetch_unspent_output_hash_by_commitment(db, input.commitment)
    IN  IF utxo_hash # NoHash
        THEN IF utxo_hash = output_hash(input) THEN "continue" ELSE "InvalidInput"
        ELSE IF fetch_output(db, output_hash(input)) THEN "ContainsSTxO"
        ELSE IF output_hash(input) \in outputs THEN "continue"
        ELSE "not_found"

\* `for input in body.inputs()` from input i on, with not_found_input as
\* collected so far; the lookups of input fails_at return a storage error.
RECURSIVE check_inputs_are_utxos_from(_, _, _, _, _, _)
check_inputs_are_utxos_from(inputs, i, db, outputs, not_found_input, fails_at) ==
    IF i > Len(inputs)
    THEN IF not_found_input # <<>>
         THEN [err |-> "UnknownInputs", not_found |-> not_found_input]
         ELSE [err |-> "none", not_found |-> <<>>]
    ELSE IF i = fails_at THEN [err |-> "ChainStorageError", not_found |-> <<>>]
    ELSE LET c == classify_input(inputs[i], db, outputs)
         IN  IF c \in {"InvalidInput", "ContainsSTxO"} THEN [err |-> c, not_found |-> <<>>]
             ELSE check_inputs_are_utxos_from(inputs, i + 1, db, outputs,
                      IF c = "not_found" THEN Append(not_found_input, output_hash(inputs[i]))
                      ELSE not_found_input, fails_at)

check_inputs_are_utxos(inputs, outputs, db, fails_at) ==
    check_inputs_are_utxos_from(inputs, 1, db, outputs, <<>>, fails_at)

\* check_inputs_are_utxos called on a body and a backend.
CheckInputsAreUtxos ==
    /\ valCall = NoValCall
    /\ \E inputs \in SeqsUpTo(UtxoInputs, MaxUtxoInputs), db \in UtxoDbs,
          outputs \in {o \in SUBSET OutputHashes : Cardinality(o) <= MaxUtxoBodyOutputs},
          fails_at \in 0..MaxUtxoInputs :
          LET r == check_inputs_are_utxos(inputs, outputs, db, fails_at)
          IN  /\ fails_at <= Len(inputs)
              /\ valCall' = [entry |-> "check_inputs_are_utxos", ok |-> r.err = "none",
                             err |-> r.err, detail |-> <<inputs, outputs, db, r.not_found>>,
                             trace |-> <<fails_at>>, signatures |-> <<>>]
    /\ UNCHANGED <<sessionVars, peerVars, block>>

NextInputsAreUtxos == CheckInputsAreUtxos

SpecInputsAreUtxos == InitPureHelpers /\ [][NextInputsAreUtxos]_vars

\* ------------------------------------------------------------------ properties
Horizon == headers[horizon_sync_height]
Returned == pc = "done"
SyncPhases == {"kernels", "outputs", "finalize"}
CommitsOf(tree) == {i \in 1..Len(commitLog) : commitLog[i].tree = tree}
ChecksOf(tree) == {j \in 1..Len(checkLog) : checkLog[j].tree = tree}

\* C1: when synchronize fails with a non-recoverable error that arose in kernel
\* sync, output sync or finalize, horizon_sync_rollback was invoked exactly
\* once, and the store's chain metadata and accumulated data equal their
\* values at the start of the session, also for headers the session had
\* already committed.
C1_NonRecoverableFailureRollsBack ==
    /\ rollbackCalls <= 1
    /\ (Returned /\ syncErr /= "none" /\ ~is_recoverable(syncErr)) => rollbackCalls = 1
    /\ (Returned /\ ~result.ok /\ result.origin \in SyncPhases /\ ~is_recoverable(result.err))
          => /\ rollbackCalls = 1
             /\ store.metadata = sessionStart.metadata
             /\ store.accData = sessionStart.accData

\* An InvalidMmrRoot failure partway through output sync, after this session
\* committed kernels and the outputs of an earlier header, has been rolled back.
C1_Witness ==
    /\ Returned
    /\ result = ErrResult("InvalidMmrRoot_Utxo", "outputs")
    /\ CommitsOf("Kernel") /= {}
    /\ CommitsOf("Utxo") /= {}
    /\ rollbackCalls = 1
    /\ store.accData = sessionStart.accData

KernelInsertOps(buffered, h, first) ==
    [i \in 1..Len(buffered) |->
        [op |-> "insert_kernel", hash |-> buffered[i], header |-> headers[h].hash,
         pos |-> first + i - 1]]

KernelRootOk(seed, buffered, h) ==
    include_legacy_deleted_hash(MmrRoot(seed \o buffered)) = headers[h].kernel_mr

\* C2: every kernel commit holds exactly the kernels buffered for its header
\* and that header's kernel pruned hash set, and is made only when the root of
\* the MMR seeded from the previous header's pruned hash set plus those
\* kernels, legacy-adjusted, equals the header's kernel_mr; on a mismatch the
\* phase returns InvalidMmrRoot(Kernel) and nothing of that header is
\* committed.
C2_KernelCommitOnlyOnRootMatch ==
    /\ \A i \in CommitsOf("Kernel") :
          LET e == commitLog[i]
          IN  /\ KernelRootOk(e.seed, e.buffered, e.header)
              /\ e.ops = KernelInsertOps(e.buffered, e.header, e.pos - Len(e.buffered) + 1)
                         \o <<[op |-> "update_pruned_hash_set", tree |-> "Kernel",
                               header |-> headers[e.header].hash,
                               set |-> e.seed \o e.buffered]>>
              /\ rollbackCalls = 0 =>
                    /\ e.seed = store.accData[headers[e.header].prev_hash].kernels
                    /\ store.accData[headers[e.header].hash].kernels = e.seed \o e.buffered
    /\ \A j \in ChecksOf("Kernel") :
          LET c == checkLog[j]
          IN  ~KernelRootOk(c.seed, c.buffered, c.header) =>
                /\ syncErr = "InvalidMmrRoot_Kernel"
                /\ j = Len(checkLog)
                /\ \A i \in CommitsOf("Kernel") : commitLog[i].header /= c.header
                /\ \A k \in 1..Len(store.kernels) :
                      store.kernels[k].header /= headers[c.header].hash
                /\ store.accData[headers[c.header].hash] =
                      sessionStart.accData[headers[c.header].hash]
    /\ \A k \in 1..Len(store.kernels) :
          k > Len(sessionStart.kernels) =>
             \E i \in CommitsOf("Kernel") :
                /\ headers[commitLog[i].header].hash = store.kernels[k].header
                /\ \E n \in 1..Len(commitLog[i].buffered) :
                      commitLog[i].buffered[n] = store.kernels[k].hash

\* Header 1 was verified and committed, then a later header's kernel root
\* did not match.
C2_Witness ==
    /\ syncErr = "InvalidMmrRoot_Kernel"
    /\ CommitsOf("Kernel") /= {}
    /\ \E j \in ChecksOf("Kernel") : ~KernelRootOk(checkLog[j].seed, checkLog[j].buffered,
                                                    checkLog[j].header)

OutputRootOk(c) == MutableMmrRoot(c.outLeaves, c.deleted) = headers[c.header].output_mr
ProofRootOk(c) ==
    include_legacy_deleted_hash(MmrRoot(c.rpLeaves)) = headers[c.header].range_proof_mr

\* C3: output sync commits a header's output and range-proof pruned hash sets
\* and deleted bitmap only when the deletion-aware output root equals
\* output_mr and the legacy-adjusted range-proof root equals range_proof_mr;
\* a differing output root fails with InvalidMmrRoot(Utxo), otherwise a
\* differing range-proof root with InvalidMmrRoot(RangeProof), and nothing is
\* committed for that header.
C3_OutputCommitOnlyOnBothRoots ==
    /\ \A i \in CommitsOf("Utxo") :
          LET e == commitLog[i]
              hh == headers[e.header].hash
          IN  /\ OutputRootOk(e)
              /\ ProofRootOk(e)
              /\ SubSeq(e.ops, Len(e.ops) - 2, Len(e.ops)) =
                   <<[op |-> "update_pruned_hash_set", tree |-> "Utxo", header |-> hh,
                      set |-> e.outLeaves],
                     [op |-> "update_pruned_hash_set", tree |-> "RangeProof", header |-> hh,
                      set |-> e.rpLeaves],
                     [op |-> "update_deleted", header |-> hh, deleted |-> e.deleted]>>
              /\ rollbackCalls = 0 =>
                    /\ store.accData[hh].outputs = e.outLeaves
                    /\ store.accData[hh].range_proofs = e.rpLeaves
                    /\ store.accData[hh].deleted = e.deleted
    /\ \A j \in ChecksOf("Utxo") :
          LET c == checkLog[j]
              hh == headers[c.header].hash
          IN  /\ ~OutputRootOk(c) => syncErr = "InvalidMmrRoot_Utxo"
              /\ (OutputRootOk(c) /\ ~ProofRootOk(c)) => syncErr = "InvalidMmrRoot_RangeProof"
              /\ ~(OutputRootOk(c) /\ ProofRootOk(c)) =>
                    /\ j = Len(checkLog)
                    /\ \A i \in CommitsOf("Utxo") : commitLog[i].header /= c.header
                    /\ \A k \in 1..Len(store.utxos) : store.utxos[k].header /= hh
                    /\ store.accData[hh].outputs = sessionStart.accData[hh].outputs
                    /\ store.accData[hh].range_proofs = sessionStart.accData[hh].range_proofs
                    /\ store.accData[hh].deleted = sessionStart.accData[hh].deleted
    /\ \A h \in Heights :
          LET hh == headers[h].hash
          IN  (\/ store.accData[hh].outputs /= sessionStart.accData[hh].outputs
               \/ store.accData[hh].range_proofs /= sessionStart.accData[hh].range_proofs
               \/ store.accData[hh].deleted /= sessionStart.accData[hh].deleted)
                 => \E i \in CommitsOf("Utxo") : commitLog[i].header = h

\* The output root matched and the range-proof root did not, after an earlier
\* header's outputs were committed.
C3_Witness ==
    /\ syncErr = "InvalidMmrRoot_RangeProof"
    /\ CommitsOf("Utxo") /= {}
    /\ \E j \in ChecksOf("Utxo") : OutputRootOk(checkLog[j]) /\ ~ProofRootOk(checkLog[j])

\* C4: whenever the chain metadata has been rewritten to the horizon header,
\* the committed kernel and output MMR sizes have reached the horizon
\* header's kernel_mmr_size and output_mmr_size.
C4_FinalizeOnlyWhenTreesSynced ==
    CommitsOf("Metadata") /= {} =>
        /\ fetch_mmr_size(store, "Kernel") >= Horizon.kernel_mmr_size
        /\ fetch_mmr_size(store, "Utxo") >= Horizon.output_mmr_size


PhaseOrder == <<"Preparing", "SyncingKernels", "SyncingOutputs", "Finalizing">>
IsPrefix(a, b) == Len(a) <= Len(b) /\ \A i \in 1..Len(a) : a[i] = b[i]
\* synchronize returned Ok(()): the final write transaction was committed.
Committed == Returned /\ result.ok
\* horizon_sync_rollback ran and succeeded.
RolledBack == Returned /\ rollbackCalls = 1 /\ result.origin /= "rollback"

\* C5 as stated: the phases run in the fixed order, none twice, and the
\* session ends in exactly one of Committed or RolledBack.
C5_EndsCommittedOrRolledBack ==
    /\ IsPrefix(phases, PhaseOrder)
    /\ Returned => (Committed \/ RolledBack) /\ ~(Committed /\ RolledBack)

\* C5, amended: the phases run in the fixed order, none twice; a session ends
\* in at most one of Committed or RolledBack: Committed after all four
\* phases, RolledBack after a non-recoverable error of a sync phase whose
\* rollback succeeded, and in neither when prepare failed, when the error was
\* recoverable or when the rollback itself failed.
C5_PhaseOrderAndOutcome ==
    /\ IsPrefix(phases, PhaseOrder)
    /\ ~(Committed /\ RolledBack)
    /\ Committed => phases = PhaseOrder
    /\ RolledBack => result.origin \in SyncPhases /\ ~is_recoverable(result.err)
    /\ (Returned /\ ~Committed /\ ~RolledBack) =>
          \/ result.origin = "prepare" /\ phases = <<"Preparing">>
          \/ result.origin = "rollback" /\ rollbackCalls = 1
          \/ result.origin \in SyncPhases /\ is_recoverable(result.err) /\ rollbackCalls = 0

\* A session that ran kernel sync and output sync and ended on a recoverable
\* error, neither Committed nor RolledBack.
C5_Witness ==
    /\ Returned
    /\ phases = <<"Preparing", "SyncingKernels", "SyncingOutputs">>
    /\ is_recoverable(result.err)
    /\ ~Committed
    /\ ~RolledBack

\* C6: when synchronize returns a recoverable error, no write transaction of
\* the session has been committed and the store equals its state at the
\* start of the session.
C6_RecoverableErrorLeavesStoreUntouched ==
    (Returned /\ ~result.ok /\ is_recoverable(result.err)) =>
        /\ commitLog = <<>>
        /\ store = sessionStart

MmrSizeOf(tree, h) ==
    IF tree = "Kernel" THEN headers[h].kernel_mmr_size ELSE headers[h].output_mmr_size
FirstHeaderOf(tree) ==
    IF tree = "Kernel" THEN fetch_header_containing_kernel_mmr(start + 1)
    ELSE fetch_header_containing_utxo_mmr(start + 1)
\* The phase of the tree opened its stream, received every position of
\* [start, end) and returned Ok.
PhaseRanToCompletion(tree) ==
    /\ pc = IF tree = "Kernel" THEN "outputs" ELSE "finalize"
    /\ start < end
    /\ Len(insertLog) >= end - start
    /\ insertLog[1].tree = tree
ExpectedChecks(tree) ==
    LET h0 == FirstHeaderOf(tree)
    IN  [i \in 1..(horizon_sync_height - h0 + 1) |->
            [header |-> h0 + i - 1, pos |-> MmrSizeOf(tree, h0 + i - 1) - 1]]
ActualChecks == [j \in 1..Len(checkLog) |-> [header |-> checkLog[j].header, pos |-> checkLog[j].pos]]
EveryHeaderAddsLeaf(tree) ==
    \A h \in (FirstHeaderOf(tree) + 1)..horizon_sync_height :
        MmrSizeOf(tree, h) > MmrSizeOf(tree, h - 1)

\* C7 as stated: in a phase that ran to completion every header from the one
\* containing position start+1 up to the horizon had its root checked exactly
\* once, right after the leaf at position (its recorded size - 1), whatever
\* the recorded sizes are.
C7_EveryHeaderCheckedOnce ==
    \A tree \in {"Kernel", "Utxo"} :
        PhaseRanToCompletion(tree) => ActualChecks = ExpectedChecks(tree)

\* C7, amended: the same, for recorded sizes under which every header after
\* the first of the range adds at least one leaf to the tree.
C7_EveryNonEmptyHeaderCheckedOnce ==
    \A tree \in {"Kernel", "Utxo"} :
        (PhaseRanToCompletion(tree) /\ EveryHeaderAddsLeaf(tree))
            => ActualChecks = ExpectedChecks(tree)

\* Output sync ran to completion over three headers that each add outputs.
C7_Witness ==
    /\ PhaseRanToCompletion("Utxo")
    /\ EveryHeaderAddsLeaf("Utxo")
    /\ Len(checkLog) >= 3
    /\ ActualChecks = ExpectedChecks("Utxo")

InStream == pc \in {"kernel_stream", "output_stream"}
LastOf(seq) == seq[Len(seq)]

\* C8: within a phase the received leaves get the consecutive positions
\* start, start+1, ... in arrival order, each is inserted under the header
\* current on arrival, and the current header moves to height+1 only in the
\* step in which the previous header's root check passed and its transaction
\* was committed.
C8_InOrderHeaderWalk ==
    /\ [](\A i \in 1..Len(insertLog) : insertLog[i].pos = start + i - 1)
    /\ [][(InStream /\ Len(insertLog') = Len(insertLog) + 1) =>
             /\ LastOf(insertLog').header = current_header
             /\ LastOf(insertLog').pos = mmr_position]_vars
    /\ [][(InStream /\ pc' = pc /\ current_header' /= current_header) =>
             /\ current_header' = current_header + 1
             /\ Len(insertLog') = Len(insertLog) + 1
             /\ Len(checkLog') = Len(checkLog) + 1
             /\ LastOf(checkLog').header = current_header
             /\ IF pc = "kernel_stream"
                THEN KernelRootOk(LastOf(checkLog').seed, LastOf(checkLog').buffered,
                                  current_header)
                ELSE OutputRootOk(LastOf(checkLog')) /\ ProofRootOk(LastOf(checkLog'))
             /\ Len(commitLog') = Len(commitLog) + 1
             /\ LastOf(commitLog').header = current_header
             /\ store' = ApplyTxn(store, LastOf(commitLog').ops)]_vars

\* The header walk has advanced twice in one phase and a leaf is buffered
\* under the third header.
C8_Witness ==
    /\ pc = "kernel_stream"
    /\ Len(insertLog) >= 3
    /\ current_header = FirstHeaderOf("Kernel") + 2
    /\ kernels /= <<>>

HorizonMetadata ==
    [BestBlock |-> Horizon.hash,
     ChainHeight |-> horizon_sync_height,
     AccumulatedWork |-> Horizon.total_accumulated_difficulty,
     EffectivePrunedHeight |-> horizon_sync_height]
MetadataKeys == {"BestBlock", "ChainHeight", "AccumulatedWork", "EffectivePrunedHeight"}

\* C9: after synchronize returned success the four metadata keys hold the
\* horizon header's values, they were written by one write transaction, and
\* no committed state has only some of them updated.
C9_MetadataRewrittenAtomically ==
    /\ Committed =>
          /\ store.metadata = HorizonMetadata
          /\ Cardinality(CommitsOf("Metadata")) = 1
          /\ \A i \in CommitsOf("Metadata") :
                {commitLog[i].ops[n].key : n \in 1..Len(commitLog[i].ops)} = MetadataKeys
    /\ store.metadata \in {sessionStart.metadata, HorizonMetadata}

\* synchronize returned success after both trees were synced to the horizon.
C9_Witness ==
    /\ Committed
    /\ \A k \in MetadataKeys : sessionStart.metadata[k] /= HorizonMetadata[k]
    /\ store.metadata = HorizonMetadata
    /\ fetch_mmr_size(store, "Kernel") = Horizon.kernel_mmr_size
    /\ fetch_mmr_size(store, "Utxo") = Horizon.output_mmr_size
    /\ Len(commitLog) >= 3

\* C10: after synchronize returned success no in-progress horizon-sync marker
\* remains on the store.
C10_ScopeClosedAfterSuccess == Committed => ~scopeOpen

\* ------------------------------------------------------------------ C11
PhasesEntered == {phases[i] : i \in 1..Len(phases)}
AfterSuccessfulRun == lastOk

\* C11: a phase that finds the local MMR size at or above the horizon header's
\* size opens no stream and writes nothing, so a second synchronize after a
\* successful one goes through both phases as no-ops: it has entered kernel
\* sync and output sync, received no leaf, committed no kernel or output
\* batch, and the store equals its state before the second run.
C11_SecondRunSkipsBothPhases ==
    (AfterSuccessfulRun /\ Returned) =>
        /\ {"SyncingKernels", "SyncingOutputs"} \subseteq PhasesEntered
        /\ insertLog = <<>>
        /\ CommitsOf("Kernel") = {} /\ CommitsOf("Utxo") = {}
        /\ store = sessionStart

\* ------------------------------------------------------------------ C12
PrepareFailed == Returned /\ result.origin = "prepare"

\* C12: when prepare_for_sync fails, synchronize returns that error in the
\* same step: no phase is entered (no RPC connection or stream), no leaf is
\* received, no write transaction is created or committed, horizon_sync_rollback
\* is not invoked and the store is untouched.
C12_PrepareFailureReturnsAtOnce ==
    /\ [](PrepareFailed =>
            /\ result.err = "ChainStorageError"
            /\ phases = <<"Preparing">>
            /\ insertLog = <<>> /\ checkLog = <<>>
            /\ txn = <<>> /\ commitLog = <<>>
            /\ rollbackCalls = 0
            /\ store = sessionStart)
    /\ [][(pc = "idle" /\ pc' /= "kernels") =>
            /\ pc' = "done"
            /\ result' = ErrResult("ChainStorageError", "prepare")
            /\ rollbackCalls' = 0
            /\ UNCHANGED <<store, scopeOpen, snapshot, txn, commitLog, insertLog>>]_vars

C12_Witness == PrepareFailed /\ ~lastOk /\ ~scopeOpen /\ store = GenesisStore

\* ------------------------------------------------------------------ C13
DeletedOf(st, h) == st.accData[HeaderHash(h)].deleted
\* Headers whose output pruned hash set has been written to the store.
HeadersWithOutputs == {h \in Heights : store.accData[HeaderHash(h)].outputs /= <<>>}

\* C13: every output-sync commit stores for its header the union of the
\* deleted bitmap of the header referenced by prev_hash and the peer's diff,
\* so among the headers whose outputs are in the store deleted(h1) is a subset
\* of deleted(h2) whenever h1 < h2, whatever the peer sent and whatever the
\* headers commit to.
C13_DeletedBitmapsGrow ==
    /\ [](\A h1, h2 \in HeadersWithOutputs :
            h1 < h2 => DeletedOf(store, h1) \subseteq DeletedOf(store, h2))
    /\ [][(Len(commitLog') = Len(commitLog) + 1 /\ LastOf(commitLog').tree = "Utxo") =>
            LET c == LastOf(commitLog')
            IN  /\ c.header > 0
                /\ DeletedOf(store, c.header - 1) \subseteq DeletedOf(store', c.header)
                /\ DeletedOf(store', c.header) = c.deleted
                /\ \A g \in Heights \ {c.header} : DeletedOf(store', g) = DeletedOf(store, g)]_vars

C13_Witness ==
    \E i \in CommitsOf("Utxo") :
        /\ commitLog[i].header >= 2
        /\ DeletedOf(store, commitLog[i].header - 1) /= {}
        /\ DeletedOf(store, commitLog[i].header) /= DeletedOf(store, commitLog[i].header - 1)
        /\ commitLog[i].header \in HeadersWithOutputs

\* ------------------------------------------------------------------ C14
\* Header 2's kernel_mr is not the root of the chain's kernels, headers 1 and
\* 2 each add a kernel, and the store holds the genesis block only.
CorruptKernelChain ==
    /\ headers[2].kernel_mr /=
         include_legacy_deleted_hash(MmrRoot(LeafSeq(TrueKernelHash, headers[2].kernel_mmr_size)))
    /\ headers[1].kernel_mmr_size > headers[0].kernel_mmr_size
    /\ headers[2].kernel_mmr_size > headers[1].kernel_mmr_size
    /\ sessionStart = GenesisStore
ReachedKernelCheckOf(h) == \E j \in ChecksOf("Kernel") : checkLog[j].header = h

\* C14: on a chain whose header 2 carries a corrupted kernel_mr, a session
\* that receives the kernels up to header 2's last one has verified and
\* committed header 1, fails the check of header 2 with InvalidMmrRoot(Kernel)
\* and commits nothing further; once horizon_sync_rollback has succeeded,
\* synchronize returns that same error and the store is the genesis store
\* again, header 1's batch included, with the scope closed.
C14_CorruptKernelRootRollsBack ==
    (CorruptKernelChain /\ ReachedKernelCheckOf(2)) =>
        /\ pc \in {"rollback", "done"}
        /\ syncErr = "InvalidMmrRoot_Kernel" /\ errOrigin = "kernels"
        /\ \E i \in CommitsOf("Kernel") : commitLog[i].header = 1
        /\ \A i \in 1..Len(commitLog) : commitLog[i].tree = "Kernel" /\ commitLog[i].header = 1
        /\ (Returned /\ result.origin /= "rollback") =>
              /\ result = ErrResult("InvalidMmrRoot_Kernel", "kernels")
              /\ rollbackCalls = 1
              /\ store = GenesisStore
              /\ ~scopeOpen

C14_Witness ==
    /\ CorruptKernelChain /\ ReachedKernelCheckOf(2)
    /\ Returned
    /\ result = ErrResult("InvalidMmrRoot_Kernel", "kernels")
    /\ Len(commitLog) = 1
    /\ Len(store.kernels) = 1

\* ------------------------------------------------------------------ C15
\* Errors of a sync phase that are raised by the content of a peer response.
FaultyResponseErrors == {"ConversionError", "IncorrectResponse"}

\* C15: a session holds one sync peer; when that single remaining peer's
\* response is faulty, the session ends with MaxSyncAttemptsReached.
C15_FaultyLastPeerEndsInMaxSyncAttempts ==
    (Returned /\ syncErr \in FaultyResponseErrors) => result.err = "MaxSyncAttemptsReached"

\* ------------------------------------------------------------------ C16
HasUnverifiableKernel(batch) == \E n \in 1..Len(batch) : ~verify_signature(batch[n])

\* C16: a session that received a kernel whose excess signature does not
\* verify fails with the kernel-signature error, and no committed kernel batch
\* holds such a kernel.
C16_TamperedKernelFailsWithSignatureError ==
    /\ (Returned /\ \E j \in ChecksOf("Kernel") : HasUnverifiableKernel(checkLog[j].buffered))
          => result.err = "InvalidKernelSignature"
    /\ \A i \in CommitsOf("Kernel") : ~HasUnverifiableKernel(commitLog[i].buffered)

\* ------------------------------------------------------------------ C17
Stopped == pc = "stopped"

\* C17: when the shutdown signal fires while the session is suspended on a
\* stream item or a commit, the session stops with its horizon-sync scope
\* rolled back: horizon_sync_rollback has run, the scope is closed and the
\* store holds nothing the session committed.
C17_ShutdownRollsBackScope ==
    Stopped => /\ rollbackCalls = 1
               /\ ~scopeOpen
               /\ store = sessionStart

\* ------------------------------------------------------------------ C18
SessionActive ==
    pc \in {"kernels", "kernel_stream", "outputs", "output_stream", "finalize", "rollback"}
OtherActive == other = "active"

\* C18: of two sessions started on the same store at most one is past
\* prepare_for_sync at any time: a session passes prepare_for_sync only when
\* no scope is open, the scope stays open while either session is active, and
\* every per-header commit of one session is made while the other is not
\* active.
C18_OneActiveSessionPerStore ==
    /\ [](~(SessionActive /\ OtherActive))
    /\ []((SessionActive \/ OtherActive) => scopeOpen)
    /\ [][(other = "idle" /\ other' = "active") => (~scopeOpen /\ ~SessionActive)]_vars
    /\ [][(pc = "idle" /\ pc' = "kernels") => (~scopeOpen /\ ~OtherActive)]_vars
    /\ [][Len(commitLog') > Len(commitLog) => (~OtherActive /\ other' = other)]_vars

\* The second session was refused while the first had committed a header and
\* was still syncing.
C18_Witness ==
    /\ SessionActive
    /\ other = "failed"
    /\ CommitsOf("Kernel") /= {}
    /\ scopeOpen

\* ------------------------------------------------------------------ C19
Members(seq) == {seq[i] : i \in 1..Len(seq)}

\* C19: select_sync_peer returns NoSyncPeers exactly when the candidate list
\* is empty; otherwise it returns an element of the list, the first one when
\* random_sync_peer_with_chain is false; the list is as it was.
C19_SelectSyncPeer ==
    helperCall.op = "select" =>
        /\ (helperCall.err = "NoSyncPeers") <=> (helperCall.input = <<>>)
        /\ helperCall.ok <=> (helperCall.input /= <<>>)
        /\ helperCall.ok => helperCall.selected \in Members(helperCall.input)
        /\ (helperCall.ok /\ ~helperCall.random) => helperCall.selected = helperCall.input[1]
        /\ sync_peers = helperCall.input

\* A random choice that is not the first element of a list of several.
C19_Witness ==
    /\ helperCall.op = "select"
    /\ helperCall.ok
    /\ Len(helperCall.input) >= 2
    /\ helperCall.selected /= helperCall.input[1]
    /\ helperCall.selected \in Members(helperCall.input)

\* ------------------------------------------------------------------ C20
KeptPositions(peers, node_id) == {i \in 1..Len(peers) : peers[i].node_id /= node_id}

\* C20: exclude_sync_peer leaves in the working list exactly the entries
\* whose node_id differs from the given peer's, in their original order; it
\* issues no ban; it returns NoSyncPeers exactly when the list is empty after
\* the removal, which is applied in that case too, and Ok otherwise, also
\* when no entry had the peer's node_id.
C20_ExcludeSyncPeer ==
    /\ [](helperCall.op = "exclude" =>
            LET kept == KeptPositions(helperCall.input, helperCall.peer.node_id)
            IN  /\ Len(sync_peers) = Cardinality(kept)
                /\ \A k \in 1..Len(sync_peers) :
                      \E j \in kept :
                         /\ Cardinality({i \in kept : i <= j}) = k
                         /\ sync_peers[k] = helperCall.input[j]
                /\ (helperCall.err = "NoSyncPeers") <=> (sync_peers = <<>>)
                /\ helperCall.ok <=> (sync_peers /= <<>>))
    /\ [][helperCall'.op = "exclude" => banRequests' = banRequests]_vars

\* The removal of two entries with the given node_id emptied the list.
C20_Witness ==
    /\ helperCall.op = "exclude"
    /\ helperCall.err = "NoSyncPeers"
    /\ Len(helperCall.input) >= 2
    /\ helperCall.input[1] /= helperCall.input[2]
    /\ sync_peers = <<>>

\* ------------------------------------------------------------------ C21
\* C21: ban_sync_peer issues exactly one ban_peer_until request, carrying the
\* given peer's node_id, duration and reason; the working set changes only
\* when that request succeeded, and then every entry with the peer's node_id
\* is gone; after Ok the peer is not in the working set.
C21_BanThenExclude ==
    /\ [](helperCall.op = "ban" =>
            /\ helperCall.ok => \A i \in 1..Len(sync_peers) :
                                   sync_peers[i].node_id /= helperCall.peer.node_id
            /\ helperCall.err = "ConnectivityError" => sync_peers = helperCall.input
            /\ helperCall.err /= "ConnectivityError" =>
                  \A i \in 1..Len(sync_peers) : sync_peers[i].node_id /= helperCall.peer.node_id)
    /\ [][helperCall'.op = "ban" /\ helperCall' /= helperCall =>
            /\ Len(banRequests') = Len(banRequests) + 1
            /\ SubSeq(banRequests', 1, Len(banRequests)) = banRequests
            /\ banRequests'[Len(banRequests')] =
                  [node_id |-> helperCall'.peer.node_id,
                   ban_duration |-> helperCall'.ban_duration,
                   reason |-> helperCall'.reason]]_vars

\* A failed ban request left a listed peer in the working set.
C21_Witness ==
    /\ helperCall.op = "ban"
    /\ helperCall.err = "ConnectivityError"
    /\ \E i \in 1..Len(sync_peers) : sync_peers[i].node_id = helperCall.peer.node_id
    /\ Len(banRequests) = 1
    /\ banRequests[1].node_id = helperCall.peer.node_id

\* ------------------------------------------------------------------ C22
ValidateEntries == {"async", "sync"}
Validated == valCall.entry \in ValidateEntries /\ valCall.err /= "ChainStorageError"
HasBadKernelSignature(b) == \E i \in 1..Len(b.body.kernels) : ~verify_signature(b.body.kernels[i])
RootsDiffer(b) ==
    LET r == calculate_mmr_roots(b.body)
    IN  \/ b.header.kernel_mr /= r.kernel_mr
        \/ b.header.output_mr /= r.output_mr
        \/ b.header.range_proof_mr /= r.range_proof_mr

\* The six checks of a block in the specified order: whether each passes.
SixChecksPass(b) ==
    <<check_block_weight(b) = "none",
      check_inputs(b) = "none",
      check_outputs(b) = "none",
      check_accounting_balance(b) = "none",
      ~HasBadKernelSignature(b),
      ~RootsDiffer(b)>>
SixCheckSteps ==
    <<{"check_block_weight"}, {"check_inputs"}, {"check_outputs"}, {"check_accounting_balance"},
      {"verify_signature"}, {"calculate_mmr_roots", "check_mmr_roots"}>>

\* C22: validate evaluates weight, input maturity and cut-through, coinbase
\* output, accounting balance, kernel signatures and MMR roots in this order,
\* stops at the first check that fails, and returns Ok only if all six pass.
C22_SixChecksInOrderFailFast ==
    Validated =>
        LET pass == SixChecksPass(block)
            failing == {i \in 1..6 : ~pass[i]}
            first == IF failing = {} THEN 6 ELSE CHOOSE i \in failing : \A j \in failing : i <= j
        IN  /\ valCall.ok <=> (failing = {})
            /\ \A i \in 1..6 :
                  (\E n \in SixCheckSteps[i] : Ran(valCall, n)) <=> (i <= first)

\* ------------------------------------------------------------------ C23
\* C23: validate returns an error whenever a kernel of the block has an
\* excess signature that does not verify, and reaches the MMR-root check only
\* with the verification result of every kernel collected.
C23_BadKernelSignatureRejected ==
    (valCall.entry = "async" /\ valCall.err /= "ChainStorageError") =>
        /\ HasBadKernelSignature(block) => ~valCall.ok
        /\ Ran(valCall, "check_mmr_roots") => Len(valCall.signatures) = Len(block.body.kernels)

\* ------------------------------------------------------------------ C24
\* C24: both validate entry points reject every non-genesis block whose
\* aggregate body does not balance.
C24_UnbalancedBlockRejected ==
    (Validated /\ block.header.height /= 0 /\ ~block.balance_ok) => ~valCall.ok

\* ------------------------------------------------------------------ C25
HasCutThroughViolation(b) ==
    \E i \in 1..Len(b.body.inputs), o \in 1..Len(b.body.outputs) :
        b.body.outputs[o] = b.body.inputs[i].commitment
CalculatedRoots(call) == Ran(call, "calculate_mmr_roots") \/ Ran(call, "check_mmr_roots")

MatureUpToFirstCutThrough(b) ==
    \E i \in 1..Len(b.body.inputs) :
        /\ \E o \in 1..Len(b.body.outputs) : b.body.outputs[o] = b.body.inputs[i].commitment
        /\ \A j \in 1..i : b.body.inputs[j].maturity <= b.header.height
        /\ \A j \in 1..(i - 1) :
              \A o \in 1..Len(b.body.outputs) : b.body.outputs[o] /= b.body.inputs[j].commitment

Immature(b, i) == b.body.inputs[i].maturity > b.header.height
EqualsAnOutput(b, i) ==
    \E o \in 1..Len(b.body.outputs) : b.body.outputs[o] = b.body.inputs[i].commitment
OffendingInputs(b) == {i \in 1..Len(b.body.inputs) : Immature(b, i) \/ EqualsAnOutput(b, i)}

\* C26: check_inputs returns Ok iff every input has maturity <= the block's
\* height and no output equals an input; otherwise the violation of the first
\* offending input in body order, InputMaturity before NoCutThrough for the
\* same input.
C26_CheckInputs ==
    valCall.entry = "check_inputs" =>
        LET bad == OffendingInputs(block)
        IN  /\ valCall.ok <=> (bad = {})
            /\ bad /= {} =>
                  LET f == CHOOSE i \in bad : \A j \in bad : i <= j
                  IN  valCall.err = IF Immature(block, f) THEN "InputMaturity" ELSE "NoCutThrough"

\* The first input, whose maturity is the block height, passed; the second is
\* immature and equals an output: InputMaturity.
C26_Witness ==
    /\ valCall.entry = "check_inputs"
    /\ Len(block.body.inputs) = 2
    /\ block.body.inputs[1].maturity = block.header.height
    /\ ~EqualsAnOutput(block, 1)
    /\ Immature(block, 2)
    /\ EqualsAnOutput(block, 2)
    /\ valCall.err = "InputMaturity"

\* ------------------------------------------------------------------ C27
\* C27: BlockValidator::check_mmr_roots and the helper check_mmr_roots both
\* reject with MismatchedMmrRoots every block whose header kernel_mr,
\* output_mr or range_proof_mr differs from the replayed root.
C27_RootMismatchRejected ==
    (valCall.entry \in {"BlockValidator::check_mmr_roots", "helpers::check_mmr_roots"}
       /\ RootsDiffer(block))
        => valCall.err = "MismatchedMmrRoots"

\* ------------------------------------------------------------------ C28
SizesDiffer(b) ==
    LET r == calculate_mmr_roots(b.body)
    IN  \/ b.header.kernel_mmr_size /= r.kernel_mmr_size
        \/ b.header.output_mmr_size /= r.output_mmr_size

\* C28: a block whose roots match and whose kernel_mmr_size or
\* output_mmr_size differs from the replayed size is rejected by validate
\* with MismatchedMmrSize; it is never accepted.
C28_SizeMismatchRejected ==
    (Validated /\ ~RootsDiffer(block) /\ SizesDiffer(block)) =>
        /\ ~valCall.ok
        /\ Ran(valCall, "check_mmr_roots") => valCall.err = "MismatchedMmrSize"

\* ------------------------------------------------------------------ C29
\* C29: validate rejects every block whose inputs or outputs are not unique
\* and in strictly ascending order.
C29_UnsortedOrDuplicateRejected ==
    (Validated /\ check_sorting_and_duplicates(block.body) /= "none") => ~valCall.ok

\* ------------------------------------------------------------------ C30
\* C30: a call of validate, whether it returns Ok or an error, leaves the
\* backing store, its horizon-sync scope and the header chain as they were.
C30_ValidateWritesNothing ==
    [][valCall'.entry \in ValidateEntries =>
          /\ store' = store
          /\ snapshot' = snapshot
          /\ scopeOpen' = scopeOpen
          /\ headers' = headers]_vars

\* A non-genesis block was accepted, and one was rejected at the root check,
\* with the store as it was.
C30_Witness ==
    /\ valCall.entry = "async"
    /\ valCall.ok
    /\ block.header.height = 1
    /\ Len(block.body.outputs) >= 1
    /\ store = GenesisStore

\* ------------------------------------------------------------------ C31
\* C31: check_block_weight returns Ok iff the body's weight is at most the
\* maximum block transaction weight or the height is 0, and BlockTooLarge
\* otherwise.
C31_CheckBlockWeight ==
    valCall.entry = "check_block_weight" =>
        /\ valCall.ok <=> (block.weight <= get_max_block_transaction_weight \/ block.header.height = 0)
        /\ ~valCall.ok => valCall.err = "BlockTooLarge"

\* A genesis block above the maximum weight was accepted.
C31_Witness ==
    /\ valCall.entry = "check_block_weight"
    /\ block.header.height = 0
    /\ block.weight > get_max_block_transaction_weight
    /\ valCall.ok

\* ------------------------------------------------------------------ C32
StrictlyIncreasing(seq) == \A i, j \in 1..Len(seq) : i < j => seq[i] < seq[j]

\* C32: is_all_unique_and_sorted is true iff the sequence is strictly
\* increasing; check_sorting_and_duplicates returns UnsortedOrDuplicateInput
\* when the inputs fail that test, UnsortedOrDuplicateOutput when the inputs
\* pass and the outputs fail, and Ok when both pass.
C32_UniqueAndSorted ==
    /\ valCall.entry = "is_all_unique_and_sorted" =>
          (valCall.ok <=> StrictlyIncreasing(valCall.detail))
    /\ valCall.entry = "check_sorting_and_duplicates" /\ block = NoBlock =>
          valCall.err = IF ~StrictlyIncreasing(valCall.detail[1]) THEN "UnsortedOrDuplicateInput"
                        ELSE IF ~StrictlyIncreasing(valCall.detail[2]) THEN "UnsortedOrDuplicateOutput"
                        ELSE "none"

\* Inputs with a duplicate and outputs in descending order: the input error.
C32_Witness ==
    /\ valCall.entry = "check_sorting_and_duplicates"
    /\ block = NoBlock
    /\ valCall.detail = <<<<1, 2, 2>>, <<3, 1>>>>
    /\ valCall.err = "UnsortedOrDuplicateInput"

C35_CommittedLeavesEndOnHeaderBoundary ==
    /\ \E h \in Heights : fetch_mmr_size(store, "Kernel") = headers[h].kernel_mmr_size
    /\ \E h \in Heights : fetch_mmr_size(store, "Utxo") = headers[h].output_mmr_size

\* A session ended after committing some header short of the horizon and
\* receiving a further kernel that was never committed.
C35_Witness ==
    /\ pc = "done"
    /\ commitLog # <<>>
    /\ fetch_mmr_size(store, "Kernel") > 1
    /\ fetch_mmr_size(store, "Kernel") < headers[MaxHeight].kernel_mmr_size
    /\ insertLog # <<>>
    /\ insertLog[Len(insertLog)].tree = "Kernel"
    /\ insertLog[Len(insertLog)].pos >= fetch_mmr_size(store, "Kernel")

\* ------------------------------------------------------------------ C36
\* An output was absorbed by this step of output sync.
OutputAbsorbed == pc = "output_stream" /\ Len(insertLog') = Len(insertLog) + 1

C37_NothingCommittedPastEnd ==
    /\ [][(pc \in {"kernel_stream", "output_stream"} /\ commitLog' # commitLog) =>
             LET ops == commitLog'[Len(commitLog')].ops
             IN  \A i \in 1..Len(ops) :
                    ops[i].op \in {"insert_kernel", "insert_output"} => ops[i].pos < end]_vars
    /\ [](/\ \A k \in 1..Len(store.kernels) :
                store.kernels[k].pos < headers[horizon_sync_height].kernel_mmr_size
          /\ \A k \in 1..Len(store.utxos) :
                store.utxos[k].pos < headers[horizon_sync_height].output_mmr_size)

\* The peer streamed an output at position end after the horizon header was
\* committed; the session returned Ok with the tree at the horizon's size.
C37_Witness ==
    /\ pc = "done"
    /\ result = OkResult
    /\ insertLog # <<>>
    /\ insertLog[Len(insertLog)].tree = "Utxo"
    /\ insertLog[Len(insertLog)].pos >= end
    /\ fetch_mmr_size(store, "Utxo") = end
    /\ end = headers[horizon_sync_height].output_mmr_size

\* ------------------------------------------------------------------ C39
\* C39: when horizon_sync_rollback fails after a non-recoverable sync error,
\* synchronize returns the error of the rollback and not the sync error, it
\* does not call the rollback again, and the scope is still open and the store
\* as the failed rollback found it when the session has ended.
C39_FailedRollbackReturnsItsError ==
    [][(pc = "rollback" /\ pc' = "done" /\ scopeOpen') =>
          /\ ~is_recoverable(syncErr)
          /\ result' = ErrResult("ChainStorageError", "rollback")
          /\ result' # ErrResult(syncErr, errOrigin)
          /\ rollbackCalls' = 1
          /\ store' = store]_vars

\* Output sync failed on a wrong output root after a header was committed, the
\* rollback failed, and synchronize returned the rollback's error with the
\* scope open and that header still in the store.
C39_Witness ==
    /\ pc = "done"
    /\ syncErr = "InvalidMmrRoot_Utxo"
    /\ result = ErrResult("ChainStorageError", "rollback")
    /\ rollbackCalls = 1
    /\ scopeOpen
    /\ store # sessionStart

\* ------------------------------------------------------------------ C38
\* The input's commitment is in the UTXO set under another output hash.
SpendsUtxoUnderOtherHash(input, db) ==
    db.utxos[input.commitment] \notin {NoHash, output_hash(input)}
\* The input's output is in the store and its commitment is not in the UTXO set.
SpendsSpentOutput(input, db) ==
    db.utxos[input.commitment] = NoHash /\ output_hash(input) \in db.outputs
\* The input's output is neither in the store nor among the body's outputs.
SpendsUnknownOutput(input, db, outputs) ==
    /\ db.utxos[input.commitment] = NoHash
    /\ output_hash(input) \notin db.outputs
    /\ output_hash(input) \notin outputs

\* C38: when no lookup it made failed, check_inputs_are_utxos returns the
\* error of the first input that spends a UTXO under another hash
\* (InvalidInput) or an output of the store that is spent (ContainsSTxO),
\* wherever unknown inputs stand in the list; with no such input it returns
\* UnknownInputs with the output hashes of the unknown inputs in input order,
\* or Ok when there is none.
C38_CheckInputsAreUtxos ==
    valCall.entry = "check_inputs_are_utxos" /\ valCall.err # "ChainStorageError" =>
        LET inputs == valCall.detail[1]
            outputs == valCall.detail[2]
            db == valCall.detail[3]
            Bad(i) == SpendsUtxoUnderOtherHash(inputs[i], db) \/ SpendsSpentOutput(inputs[i], db)
            bad == {i \in 1..Len(inputs) : Bad(i)}
            Unknown(input) == SpendsUnknownOutput(input, db, outputs)
            unknown == SelectSeq(inputs, Unknown)
        IN  IF bad # {}
            THEN LET first == CHOOSE i \in bad : \A j \in bad : i <= j
                 IN  valCall.err = IF SpendsUtxoUnderOtherHash(inputs[first], db)
                                   THEN "InvalidInput" ELSE "ContainsSTxO"
            ELSE /\ valCall.ok <=> unknown = <<>>
                 /\ ~valCall.ok =>
                       /\ valCall.err = "UnknownInputs"
                       /\ valCall.detail[4] = [i \in 1..Len(unknown) |-> output_hash(unknown[i])]

\* An unknown input followed by one that spends a spent output which the body
\* also creates: ContainsSTxO.
C38_Witness ==
    /\ valCall.entry = "check_inputs_are_utxos"
    /\ Len(valCall.detail[1]) = 2
    /\ SpendsUnknownOutput(valCall.detail[1][1], valCall.detail[3], valCall.detail[2])
    /\ SpendsSpentOutput(valCall.detail[1][2], valCall.detail[3])
    /\ output_hash(valCall.detail[1][2]) \in valCall.detail[2]
    /\ valCall.err = "ContainsSTxO"

\* ------------------------------------------------------------------ C40
\* The working set the ban was called on held the banned peer and no other.
BannedPeerWasLast ==
    /\ helperCall.input # <<>>
    /\ \A i \in 1..Len(helperCall.input) : helperCall.input[i].node_id = helperCall.peer.node_id

\* C40: a ban_sync_peer that returns the connectivity error leaves the working
\* set as it found it; one whose ban request succeeded on a set holding only
\* the banned peer returns NoSyncPeers, with the request made and the set
\* emptied.
C40_BanFailureAndLastPeer ==
    helperCall.op = "ban" =>
        /\ helperCall.err = "ConnectivityError" => ~helperCall.ok /\ sync_peers = helperCall.input
        /\ (BannedPeerWasLast /\ helperCall.err # "ConnectivityError") =>
              /\ ~helperCall.ok
              /\ helperCall.err = "NoSyncPeers"
              /\ sync_peers = <<>>
              /\ banRequests # <<>>
              /\ banRequests[Len(banRequests)].node_id = helperCall.peer.node_id

\* The only peer of the working set was banned: NoSyncPeers, the set empty and
\* the ban request made.
C40_Witness ==
    /\ helperCall.op = "ban"
    /\ BannedPeerWasLast
    /\ helperCall.err = "NoSyncPeers"
    /\ sync_peers = <<>>
    /\ Len(banRequests) = 1
    /\ banRequests[1].node_id = helperCall.peer.node_id

====
